---------------------------- MODULE Spec2Model ----------------------------
(***************************************************************************)
(* State-machine model of the AR1335 image-sensor driver (src/src/ar1335.c) *)
(*                                                                         *)
(* Every caller thread runs one driver entry point at a time.  An entry    *)
(* point is cut into steps at its bus transactions and at its mutex        *)
(* operations, so that two entry points running on two threads interleave  *)
(* exactly where the kernel lets them interleave.  Every bus transaction   *)
(* either succeeds or fails with an errno chosen by the bus.               *)
(***************************************************************************)
EXTENDS Integers, Sequences, FiniteSets, TLC

(***************************************************************************)
(* Bounds of the model.                                                    *)
(***************************************************************************)
\* number of caller threads that may be inside the driver at the same time
NumThreads == 2

Threads == 1..NumThreads

(***************************************************************************)
(* Program constants.                                                      *)
(***************************************************************************)
AR1335_TABLE_WAIT_MS == 0
AR1335_TABLE_END == 1
AR1335_WAIT_MS == 100
AR1335_DEF_FRAME_RATE == 30
AR1335_MAX_RATIO_MISMATCH == 10
MAX_FRAME_RATE == 60
MIN_FRAME_RATE == 30
AR1335_REG_X_ADDR_START == 836          \* 0x0344
AR1335_MIN_X_ADDR_START == 8
AR1335_MIN_Y_ADDR_START == 8
AR1335_MAX_X_ADDR_END == 4231
AR1335_MAX_Y_ADDR_END == 3143
AR1335_NATIVE_WIDTH == 4240
AR1335_NATIVE_HEIGHT == 3152
AR1335_WIDTH_MAX == 4240
AR1335_HEIGHT_MAX == 3152
EINVAL == 22
ENXIO == 6
ENOMEM == 12
INT_MAX == 2147483647

\* pixel codes and the "which" selector of a format request
MEDIA_BUS_FMT_SRGGB10_1X10 == "SRGGB10_1X10"
MEDIA_BUS_FMT_SRGGB8_1X8 == "SRGGB8_1X8"
V4L2_FIELD_NONE == "NONE"
V4L2_SUBDEV_FORMAT_TRY == "TRY"
V4L2_SUBDEV_FORMAT_ACTIVE == "ACTIVE"

\* registers named by the properties
REG_RESET_REGISTER == 12314             \* 0x301A, holds the stream-enable bits
REG_GLOBAL_GAIN == 12382                \* 0x305E
AR1335_REG_FRAME_LENGTH_LINES == 832           \* 0x0340
REG_LINE_LENGTH_PCK == 834              \* 0x0342
REG_COARSE_INTEGRATION_TIME == 514      \* 0x0202
STREAM_ON_VALUE == 572                  \* 0x023C
STREAM_OFF_VALUE == 528                 \* 0x0210

(***************************************************************************)
(* Register tables: sequences of <<addr, val>>, closed by the sentinel     *)
(* AR1335_TABLE_END; an entry with address AR1335_TABLE_WAIT_MS is a sleep. *)
(***************************************************************************)
\* a start table that sets the stream-enable bits before its other entry
ar1335_start_stream_enable_first ==
  << <<12314, 572>>,
     <<16188, 3>>,
     <<AR1335_TABLE_END, 0>> >>

ar1335_start_stream ==
  << <<16188, 3>>,
     <<12314, 572>>,
     <<AR1335_TABLE_END, 0>> >>

ar1335_stop_stream ==
  << <<16188, 2>>,
     <<12314, 528>>,
     <<AR1335_TABLE_END, 0>> >>

mode_3840x2160_30 ==
  << <<12720, 134>>,
     <<12722, 87>>,
     <<12724, 9234>>,
     <<12726, 5162>>,
     <<12728, 9235>>,
     <<12730, 7280>>,
     <<12732, 1675>>,
     <<12718, 516>>,
     <<768, 4>>,
     <<770, 1>>,
     <<772, 2307>>,
     <<774, 53047>>,
     <<776, 10>>,
     <<778, 1>>,
     <<274, 2570>>,
     <<12310, 257>>,
     <<AR1335_TABLE_WAIT_MS, AR1335_WAIT_MS>>,
     <<834, 4656>>,
     <<832, 3150>>,
     <<12352, 16449>>,
     <<12658, 518>>,
     <<12666, 16750>>,
     <<16188, 3>>,
     <<1024, 0>>,
     <<1028, 16>>,
     <<514, 3118>>,
     <<AR1335_TABLE_END, 0>> >>

mode_1920x1080_30 ==
  << <<12720, 77>>,
     <<12722, 40>>,
     <<12724, 8974>>,
     <<12726, 4936>>,
     <<12728, 7186>>,
     <<12730, 6235>>,
     <<12732, 34057>>,
     <<12718, 516>>,
     <<12324, 1>>,
     <<768, 4>>,
     <<770, 1>>,
     <<772, 771>>,
     <<774, 14135>>,
     <<776, 10>>,
     <<778, 1>>,
     <<274, 2570>>,
     <<12310, 257>>,
     <<AR1335_TABLE_WAIT_MS, AR1335_WAIT_MS>>,
     <<834, 4656>>,
     <<832, 3150>>,
     <<12352, 16449>>,
     <<12658, 518>>,
     <<12666, 20846>>,
     <<16188, 3>>,
     <<1024, 1>>,
     <<1028, 16>>,
     <<514, 3118>>,
     <<AR1335_TABLE_END, 0>> >>

\* the mode table; C index i is ar1335_res_table[i + 1] here
\* initial_regs: each entry is one bus write <<register, value>>
initial_regs ==
  <<
    <<12314, 528>>, <<16054, 77>>, <<16060, 43526>>, <<16064, 7682>>, <<16066, 30464>>,
    <<16068, 7176>>, <<16070, 59972>>, <<16072, 3855>>, <<16074, 3914>>, <<16076, 1798>>,
    <<16078, 17467>>, <<16080, 4848>>, <<16082, 57>>, <<16084, 34351>>, <<16086, 16512>>,
    <<16088, 1315>>, <<16090, 63638>>, <<16092, 20620>>, <<16094, 20485>>, <<12650, 33280>>,
    <<12654, 33280>>, <<12652, 33280>>, <<16112, 16717>>, <<16114, 257>>, <<16118, 775>>,
    <<16122, 3855>>, <<16124, 3855>>, <<16126, 3855>>, <<15616, 1094>>, <<15618, 19558>>,
    <<15620, 65535>>, <<15622, 65535>>, <<15624, 24128>>, <<15626, 4422>>, <<15628, 23873>>,
    <<15630, 4232>>, <<15632, 33602>>, <<15634, 192>>, <<15636, 21888>>, <<15638, 23427>>,
    <<15640, 24708>>, <<15642, 23181>>, <<15644, 192>>, <<15646, 33602>>, <<15648, 37466>>,
    <<15650, 34404>>, <<15652, 4144>>, <<15654, 32796>>, <<15656, 160>>, <<15658, 22192>>,
    <<15660, 22408>>, <<15662, 20816>>, <<15664, 33357>>, <<15666, 36184>>, <<15668, 22738>>,
    <<15670, 17290>>, <<15672, 17810>>, <<15674, 17802>>, <<15676, 17289>>, <<15678, 20991>>,
    <<15680, 33873>>, <<15682, 33808>>, <<15684, 3208>>, <<15686, 22873>>, <<15688, 35423>>,
    <<15690, 55874>>, <<15692, 37729>>, <<15694, 33378>>, <<15696, 33602>>, <<15698, 32784>>,
    <<15700, 49217>>, <<15702, 25855>>, <<15704, 65463>>, <<15706, 16513>>, <<15708, 16512>>,
    <<15710, 16768>>, <<15712, 17024>>, <<15714, 17293>>, <<15716, 17594>>, <<15718, 17544>>,
    <<15720, 17280>>, <<15722, 16961>>, <<15724, 33088>>, <<15726, 33344>>, <<15728, 32833>>,
    <<15730, 32834>>, <<15732, 32835>>, <<15734, 36164>>, <<15736, 47684>>, <<15738, 34654>>,
    <<15740, 17236>>, <<15742, 16961>>, <<15744, 33088>>, <<15746, 33056>>, <<15748, 10369>>,
    <<15750, 24614>>, <<15752, 32853>>, <<15754, 32880>>, <<15756, 32832>>, <<15758, 19585>>,
    <<15760, 17859>>, <<15762, 17793>>, <<15764, 19520>>, <<15766, 32880>>, <<15768, 32832>>,
    <<15770, 19589>>, <<15772, 27816>>, <<15774, 27788>>, <<15776, 14>>, <<15778, 48708>>,
    <<15780, 34884>>, <<15782, 48248>>, <<15784, 2304>>, <<15786, 35076>>, <<15788, 32896>>,
    <<15790, 576>>, <<15792, 34313>>, <<15794, 142>>, <<15796, 2304>>, <<15798, 32770>>,
    <<15800, 16512>>, <<15802, 1152>>, <<15804, 34940>>, <<15806, 43654>>, <<15808, 2304>>,
    <<15810, 34682>>, <<15812, 14>>, <<15814, 50041>>, <<15816, 19520>>, <<15818, 49008>>,
    <<15820, 24128>>, <<15822, 4430>>, <<15824, 23873>>, <<15826, 21379>>, <<15828, 16896>>,
    <<15830, 49237>>, <<15832, 41984>>, <<15834, 49283>>, <<15836, 17032>>, <<15838, 24707>>,
    <<15840, 23424>>, <<15842, 23140>>, <<15844, 4144>>, <<15846, 32796>>, <<15848, 165>>,
    <<15850, 22167>>, <<15852, 22437>>, <<15854, 20864>>, <<15856, 20570>>, <<15858, 33101>>,
    <<15860, 33624>>, <<15862, 32856>>, <<15864, 43331>>, <<15866, 33605>>, <<15868, 45125>>,
    <<15870, 33603>>, <<15872, 41809>>, <<15874, 57937>>, <<15876, 35929>>, <<15878, 32857>>,
    <<15880, 35423>>, <<15882, 60540>>, <<15884, 52356>>, <<15886, 24962>>, <<15888, 25219>>,
    <<15890, 17027>>, <<15892, 4300>>, <<15894, 25750>>, <<15896, 17025>>, <<15898, 16827>>,
    <<15900, 16514>>, <<15902, 16510>>, <<15904, 52289>>, <<15906, 32834>>, <<15908, 32835>>,
    <<15910, 33536>>, <<15912, 49288>>, <<15914, 17594>>, <<15916, 17544>>, <<15918, 200>>,
    <<15920, 32834>>, <<15922, 16769>>, <<15924, 16514>>, <<15926, 16512>>, <<15928, 16768>>,
    <<15930, 17024>>, <<15932, 17283>>, <<15934, 192>>, <<15936, 34884>>, <<15938, 47684>>,
    <<15940, 34816>>, <<15942, 51328>>, <<15944, 16961>>, <<15946, 33344>>, <<15948, 33088>>,
    <<15950, 32833>>, <<15952, 32834>>, <<15954, 32835>>, <<15956, 33536>>, <<15958, 49288>>,
    <<15960, 17594>>, <<15962, 17544>>, <<15964, 200>>, <<15966, 32834>>, <<15968, 16769>>,
    <<15970, 16514>>, <<15972, 16512>>, <<15974, 16768>>, <<15976, 17024>>, <<15978, 17283>>,
    <<15980, 192>>, <<15982, 34884>>, <<15984, 47684>>, <<15986, 34816>>, <<15988, 51328>>,
    <<15990, 16961>>, <<15992, 33088>>, <<15994, 40798>>, <<15996, 35412>>, <<15998, 34336>>,
    <<16000, 10369>>, <<16002, 24614>>, <<16004, 32853>>, <<16006, 32880>>, <<16008, 0>>,
    <<16010, 0>>, <<16012, 0>>, <<16014, 0>>, <<16016, 0>>, <<16018, 0>>,
    <<16020, 0>>, <<16022, 0>>, <<16024, 0>>, <<16026, 0>>, <<16028, 0>>,
    <<16030, 0>>, <<16032, 0>>, <<16034, 0>>, <<16036, 0>>, <<16038, 0>>,
    <<16040, 0>>, <<16042, 0>>, <<16044, 0>>, <<16046, 0>>, <<16048, 0>>,
    <<16050, 0>>, <<16052, 0>>
  >>

ar1335_res_table ==
  << [width |-> 1920, height |-> 1080, ar1335_mode |-> mode_1920x1080_30],
     [width |-> 3840, height |-> 2160, ar1335_mode |-> mode_3840x2160_30] >>

\* ARRAY_SIZE(ar1335_res_table)
res_num == Len(ar1335_res_table)

(***************************************************************************)
(* Fixed-width arithmetic.  TLC's integers are 32 bits wide, so the one    *)
(* product of the driver that leaves the s32 range (x * 8192) is computed  *)
(* on the low 19 bits of x, which is what a wrapping s32 multiply keeps.   *)
(***************************************************************************)
U16(x) == x % 65536

\* C division of an int by a positive int: truncation toward zero
CDiv(a, b) == IF a >= 0 THEN a \div b ELSE -((-a) \div b)

\* (s32)(x * 8192) for 0 <= x < 2^31, wrapping as the kernel build
\* (-fno-strict-overflow) wraps
Mul8192S32(x) ==
  LET low19 == x % 524288
  IN  IF low19 >= 262144 THEN (low19 - 524288) * 8192 ELSE low19 * 8192

\* abs() of an s32
Abs(x) == IF x < 0 THEN -x ELSE x

\* clamp(val, lo, hi)
Clamp(val, lo, hi) == IF val < lo THEN lo ELSE IF val > hi THEN hi ELSE val


\* ((a - b) mod 2^32) / 2 for u32 a, b below 2^31
HalfU32Sub(a, b) ==
  IF a >= b THEN (a - b) \div 2 ELSE INT_MAX - ((b - a - 1) \div 2)

\* x & ~1
ClearBit0(x) == x - (x % 2)

(***************************************************************************)
(* Resolution matcher.                                                     *)
(***************************************************************************)
\* the loop without its break: every accepted mode replaces the one before
RECURSIVE match_scan_last(_, _, _, _, _)
match_scan_last(i, w1, h1, min_distance, idx) ==
  IF i >= res_num THEN idx
  ELSE
    LET w0 == ar1335_res_table[i + 1].width
        h0 == ar1335_res_table[i + 1].height
        mismatch == CDiv(CDiv(Mul8192S32(Abs(w0 * h1 - w1 * h0)), w1), h0)
        distance == CDiv(CDiv(Mul8192S32(w0 * h1 + w1 * h0), w1), h1)
    IN  IF w0 < w1 \/ h0 < h1
          THEN match_scan_last(i + 1, w1, h1, min_distance, idx)
        ELSE IF mismatch > (8192 * AR1335_MAX_RATIO_MISMATCH) \div 100
          THEN match_scan_last(i + 1, w1, h1, min_distance, idx)
        ELSE IF distance < min_distance
          THEN match_scan_last(i + 1, w1, h1, min_distance, i)
        ELSE match_scan_last(i + 1, w1, h1, min_distance, idx)

\* the loop with the mismatch test inverted: a mode is skipped when its
\* mismatch is below the limit
RECURSIVE match_scan_below(_, _, _, _, _)
match_scan_below(i, w1, h1, min_distance, idx) ==
  IF i >= res_num THEN idx
  ELSE
    LET w0 == ar1335_res_table[i + 1].width
        h0 == ar1335_res_table[i + 1].height
        mismatch == CDiv(CDiv(Mul8192S32(Abs(w0 * h1 - w1 * h0)), w1), h0)
        distance == CDiv(CDiv(Mul8192S32(w0 * h1 + w1 * h0), w1), h1)
    IN  IF w0 < w1 \/ h0 < h1
          THEN match_scan_below(i + 1, w1, h1, min_distance, idx)
        ELSE IF mismatch < (8192 * AR1335_MAX_RATIO_MISMATCH) \div 100
          THEN match_scan_below(i + 1, w1, h1, min_distance, idx)
        ELSE IF distance < min_distance
          THEN i
        ELSE match_scan_below(i + 1, w1, h1, min_distance, idx)

\* the for loop of ar1335_match_resolution from C index i on
RECURSIVE match_scan(_, _, _, _, _)
match_scan(i, w1, h1, min_distance, idx) ==
  IF i >= res_num THEN idx
  ELSE
    LET w0 == ar1335_res_table[i + 1].width
        h0 == ar1335_res_table[i + 1].height
        mismatch == CDiv(CDiv(Mul8192S32(Abs(w0 * h1 - w1 * h0)), w1), h0)
        distance == CDiv(CDiv(Mul8192S32(w0 * h1 + w1 * h0), w1), h1)
    IN  IF w0 < w1 \/ h0 < h1
          THEN match_scan(i + 1, w1, h1, min_distance, idx)
        ELSE IF mismatch > (8192 * AR1335_MAX_RATIO_MISMATCH) \div 100
          THEN match_scan(i + 1, w1, h1, min_distance, idx)
        ELSE IF distance < min_distance
          THEN i
        ELSE match_scan(i + 1, w1, h1, min_distance, idx)

\* returns a C index into ar1335_res_table, or -1
ar1335_match_resolution(fmt) ==
  IF fmt.width = 0 \/ fmt.height = 0 THEN -1
  ELSE match_scan(0, fmt.width, fmt.height, INT_MAX, -1)

\* the bounds test joined with || in place of &&
ar1335_try_mbus_fmt_locked_or(fmt) ==
  LET inside == fmt.width <= ar1335_res_table[res_num].width
                \/ fmt.height <= ar1335_res_table[res_num].height
      m == IF inside THEN ar1335_match_resolution(fmt) ELSE -1
      idx == IF m = -1 THEN res_num - 1 ELSE m
  IN  [idx |-> idx,
       width |-> ar1335_res_table[idx + 1].width,
       height |-> ar1335_res_table[idx + 1].height,
       scanned |-> inside]

\* the size of the request handed back as it came, not that of the mode
ar1335_try_mbus_fmt_locked_raw(fmt) ==
  LET inside == fmt.width <= ar1335_res_table[res_num].width
                /\ fmt.height <= ar1335_res_table[res_num].height
      m == IF inside THEN ar1335_match_resolution(fmt) ELSE -1
      idx == IF m = -1 THEN res_num - 1 ELSE m
  IN  [idx |-> idx, width |-> fmt.width, height |-> fmt.height,
       scanned |-> inside]

\* idx is the value returned; width and height are what the call leaves in
\* *fmt; scanned tells whether ar1335_match_resolution was called
ar1335_try_mbus_fmt_locked(fmt) ==
  LET inside == fmt.width <= ar1335_res_table[res_num].width
                /\ fmt.height <= ar1335_res_table[res_num].height
      m == IF inside THEN ar1335_match_resolution(fmt) ELSE -1
      idx == IF m = -1 THEN res_num - 1 ELSE m
  IN  [idx |-> idx,
       width |-> ar1335_res_table[idx + 1].width,
       height |-> ar1335_res_table[idx + 1].height,
       scanned |-> inside]

(***************************************************************************)
(* Geometry calculator: the data words of the burst that starts at         *)
(* AR1335_REG_X_ADDR_START.                                                *)
(***************************************************************************)
\* the centring offset without the clamp
geometry_x_unclamped(fmt) ==
  U16(HalfU32Sub(AR1335_WIDTH_MAX, fmt.width))

geometry_x(fmt) ==
  U16(Clamp(HalfU32Sub(AR1335_WIDTH_MAX, fmt.width),
            AR1335_MIN_X_ADDR_START, AR1335_MAX_X_ADDR_END))

geometry_y(fmt) ==
  U16(Clamp(ClearBit0(HalfU32Sub(AR1335_HEIGHT_MAX, fmt.height)),
            AR1335_MIN_Y_ADDR_START, AR1335_MAX_Y_ADDR_END))

ar1335_set_geometry(fmt) ==
  LET x == geometry_x(fmt)
      y == geometry_y(fmt)
  IN  << x, y,
         U16(x + fmt.width - 1), U16(y + fmt.height - 1),
         U16(fmt.width), U16(fmt.height) >>

(***************************************************************************)
(* The bus.  A transaction returns 0 or a negative errno.                  *)
(***************************************************************************)
BusErrors == {-5}
BusResults == {0} \cup BusErrors

\* one issued bus write: a register address, the data words that follow it
\* and whether the transfer succeeded
BusWrite(addr, data, r) == [addr |-> addr, data |-> data, ok |-> (r = 0)]

\* one issued bus read: the register, the value it returned and whether the
\* transfer succeeded; a read carries no data words to the device
BusRead(addr, val, r) ==
  [addr |-> addr, data |-> << >>, ok |-> (r = 0), val |-> val]

(***************************************************************************)
(* Inputs of the entry points.                                             *)
(***************************************************************************)
PixelCodes == {MEDIA_BUS_FMT_SRGGB10_1X10, MEDIA_BUS_FMT_SRGGB8_1X8, "UYVY8_1X16"}

\* requested sizes used while the whole driver runs
StreamRequests == { <<1920, 1080>>, <<3840, 2160>> }

\* requested sizes used to exercise the matcher
FormatRequests ==
  { <<0, 1080>>, <<1920, 0>>, <<640, 480>>, <<1900, 1070>>, <<1920, 1080>>,
    <<1920, 200>>, <<1921, 1080>>, <<3840, 2160>>, <<3841, 2160>>,
    <<3840, 2161>>, <<3841, 100>>, <<100, 2161>>, <<4240, 3152>>,
    <<5000, 4000>>, <<65535, 65535>> }

\* a grid of requested sizes laid over the two modes and beyond them
WidthStep == 160
HeightStep == 90
GridRequests ==
  { <<i * WidthStep, j * HeightStep>> : i \in 0..25, j \in 0..25 }
MatchRequests == FormatRequests \cup GridRequests

\* requested frame intervals <<numerator, denominator>>
Intervals == { <<60, 1>> }

\* debug register writes <<reg, val>>
DebugWrites == { <<12382, 8213>> }

\* frame intervals with a zero numerator, a zero denominator and a rate
\* above 60 fps, next to intervals that are taken as they are
IntervalRequests ==
  { <<0, 30>>, <<1, 0>>, <<1, 120>>, <<1, 30>>, <<1, 60>>, <<30, 1>>,
    <<60, 1>>, <<2, 60>> }

\* fse->index of ar1335_enum_frame_size
MaxIndex == 2
EnumIndexes == 0..MaxIndex

\* what a read through the null dev->res_table can hand back when it does
\* not fault: the width and height found at the address
StrayMemory == { <<0, 0>>, <<65535, 4240>> }

(***************************************************************************)
(* State.                                                                  *)
(***************************************************************************)
VARIABLES
  input_lock,     \* struct mutex input_lock: 0 when free, else the holder
  cur_res,        \* dev->cur_res
  format,         \* dev->format
  frame_rate,     \* dev->frame_rate
  sys_activated,  \* dev->sys_activated
  streaming,      \* history: a stream-start succeeded and no stop followed
  pc,             \* where each thread stands
  call,           \* the entry point each thread is in, with its arguments
  local,          \* its local variables: idx, next (table cursor), ret
  wr,             \* history: the bus transfers it has issued in this call
  out,            \* what the call hands back to the caller
  attach,         \* what ar1335_probe has done with the sub-device
  ctrl_val,       \* the control values the caller has set (ctrl->val)
  prev            \* history: the last ar1335_set_fmt call that returned

dev == <<cur_res, format, frame_rate, sys_activated>>
\* what the entry points modelled above the controls leave alone
aux == <<attach, ctrl_val, prev>>
vars == <<input_lock, cur_res, format, frame_rate, sys_activated, streaming,
          pc, call, local, wr, out, attach, ctrl_val, prev>>

NoCall == [op |-> "none"]
NoLocal == [idx |-> 0, next |-> 0, ret |-> 0]
NoOut == [op |-> "none"]
NoPrev == [op |-> "none"]

\* the controls of ar1335_s_ctrl
ControlIds ==
  {"V4L2_CID_GAIN", "V4L2_CID_TEST_PATTERN", "V4L2_CID_VFLIP",
   "V4L2_CID_HFLIP", "V4L2_CID_HDR_MODE", "V4L2_CID_DEFECT_CORRECTION",
   "V4L2_CID_LENGTH_LINE_PCK", "V4L2_CID_COARSE_INT_TIME"}

\* no control has been set by a caller: ar1335_probe creates the controls
\* and never calls v4l2_ctrl_handler_setup
NoCtrlVal == [c \in ControlIds |-> << >>]

\* attach.state is "none" before ar1335_probe is called, "probing" inside it,
\* "registered" once v4l2_async_register_subdev has succeeded and "failed"
\* once the probe has returned an error; attach.unregistered counts the
\* calls of v4l2_device_unregister_subdev
Attached == [state |-> "registered", unregistered |-> 0]

\* thread t leaves its entry point: the locals of the call are gone
Leave(t) ==
  /\ pc' = [pc EXCEPT ![t] = "idle"]
  /\ call' = [call EXCEPT ![t] = NoCall]
  /\ local' = [local EXCEPT ![t] = NoLocal]
  /\ wr' = [wr EXCEPT ![t] = << >>]
  /\ out' = [out EXCEPT ![t] = NoOut]

\* the state ar1335_probe leaves: devm_kzalloc zeroes the device, then the
\* format and the frame rate are initialized
Init ==
  /\ input_lock = 0
  /\ cur_res = 0
  /\ format = [width |-> AR1335_WIDTH_MAX, height |-> AR1335_HEIGHT_MAX,
               code |-> MEDIA_BUS_FMT_SRGGB10_1X10, field |-> V4L2_FIELD_NONE]
  /\ frame_rate = [numerator |-> 1, denominator |-> AR1335_DEF_FRAME_RATE]
  /\ sys_activated = FALSE
  /\ streaming = FALSE
  /\ pc = [t \in Threads |-> "idle"]
  /\ call = [t \in Threads |-> NoCall]
  /\ local = [t \in Threads |-> NoLocal]
  /\ wr = [t \in Threads |-> << >>]
  /\ out = [t \in Threads |-> NoOut]
  /\ attach = Attached
  /\ ctrl_val = NoCtrlVal
  /\ prev = NoPrev

(***************************************************************************)
(* Every entry point is a sequence of steps of the calling thread.  A      *)
(* thread blocked in mutex_lock does nothing, so the call and the          *)
(* acquisition of the mutex are one step, enabled when the mutex is free.  *)
(* The last step of an entry point releases the mutex (where the code does) *)
(* and returns local[t].ret; the state before it is the state at the       *)
(* return statement.                                                       *)
(***************************************************************************)

(***************************************************************************)
(* ar1335_s_stream                                                         *)
(***************************************************************************)
\* mutex_lock(&dev->input_lock); idx = dev->cur_res;
SStreamLock(t, enable) ==
  /\ pc[t] = "idle"
  /\ UNCHANGED aux
  /\ input_lock = 0
  /\ input_lock' = t
  /\ call' = [call EXCEPT ![t] = [op |-> "s_stream", enable |-> enable]]
  /\ local' = [local EXCEPT ![t] = [idx |-> cur_res, next |-> 1, ret |-> 0]]
  /\ streaming' = IF enable = 0 THEN FALSE ELSE streaming
  /\ pc' = [pc EXCEPT ![t] = IF enable # 0 THEN "geometry" ELSE "stop_table"]
  /\ UNCHANGED <<dev, wr, out>>

\* both branches on dev->sys_activated: ret = ar1335_set_stream(dev, enable),
\* that is the geometry burst of ar1335_set_geometry; the empty
\* "if (!ret) { }" leaves ret to be overwritten by the mode table
SStreamGeometry(t) ==
  /\ pc[t] = "geometry"
  /\ UNCHANGED aux
  /\ \E r \in BusResults :
       /\ wr' = [wr EXCEPT ![t] =
                   Append(@, BusWrite(AR1335_REG_X_ADDR_START,
                                      ar1335_set_geometry(format), r))]
       /\ local' = [local EXCEPT ![t].ret = r, ![t].next = 1]
  /\ sys_activated' = TRUE
  /\ pc' = [pc EXCEPT ![t] = "mode_table"]
  /\ UNCHANGED <<input_lock, cur_res, format, frame_rate, streaming,
                 call, out>>

\* one iteration of the loop of ar1335_write_table over table, followed by
\* the caller's "if (ret < 0) goto error" once the function has returned
ar1335_write_table(t, table, done_pc) ==
  LET e == table[local[t].next]
  IN  IF e[1] = AR1335_TABLE_END
        THEN /\ local' = [local EXCEPT ![t].ret = 0, ![t].next = 1]
             /\ pc' = [pc EXCEPT ![t] = done_pc]
             /\ UNCHANGED wr
      ELSE IF e[1] = AR1335_TABLE_WAIT_MS
        THEN /\ local' = [local EXCEPT ![t].next = @ + 1]
             /\ UNCHANGED <<pc, wr>>
      ELSE \E r \in BusResults :
             /\ wr' = [wr EXCEPT ![t] = Append(@, BusWrite(e[1], <<e[2]>>, r))]
             /\ IF r # 0
                  THEN /\ local' = [local EXCEPT ![t].ret = r, ![t].next = 1]
                       /\ pc' = [pc EXCEPT ![t] =
                                   IF r < 0 THEN "error" ELSE done_pc]
                  ELSE /\ local' = [local EXCEPT ![t].next = @ + 1]
                       /\ UNCHANGED pc

SStreamModeTable(t) ==
  /\ pc[t] = "mode_table"
  /\ UNCHANGED aux
  /\ ar1335_write_table(t, ar1335_res_table[local[t].idx + 1].ar1335_mode,
                        "start_table")
  /\ UNCHANGED <<input_lock, dev, streaming, call, out>>

SStreamStartTable(t) ==
  /\ pc[t] = "start_table"
  /\ UNCHANGED aux
  /\ ar1335_write_table(t, ar1335_start_stream, "error")
  /\ UNCHANGED <<input_lock, dev, streaming, call, out>>

SStreamStopTable(t) ==
  /\ pc[t] = "stop_table"
  /\ UNCHANGED aux
  /\ ar1335_write_table(t, ar1335_stop_stream, "error")
  /\ UNCHANGED <<input_lock, dev, streaming, call, out>>

\* error: mutex_unlock(&dev->input_lock); return ret;
SStreamReturn(t) ==
  /\ pc[t] = "error"
  /\ UNCHANGED aux
  /\ input_lock' = 0
  /\ streaming' = IF call[t].enable # 0 /\ local[t].ret = 0
                    THEN TRUE ELSE streaming
  /\ Leave(t)
  /\ UNCHANGED dev

(***************************************************************************)
(* ar1335_set_fmt                                                          *)
(***************************************************************************)
\* the mode index taken from a match of the stored format, not of the request
SetFmtLock_stale(t, which, req, code) ==
  /\ pc[t] = "idle"
  /\ UNCHANGED aux
  /\ input_lock = 0
  /\ input_lock' = t
  /\ LET r == ar1335_try_mbus_fmt_locked([width |-> req[1], height |-> req[2]])
         s == ar1335_try_mbus_fmt_locked([width |-> format.width,
                                          height |-> format.height])
         ok == code \in {MEDIA_BUS_FMT_SRGGB10_1X10, MEDIA_BUS_FMT_SRGGB8_1X8}
     IN  /\ out' = [out EXCEPT ![t] =
                      [op |-> "set_fmt", idx |-> r.idx, scanned |-> r.scanned,
                       width |-> r.width, height |-> r.height]]
         /\ IF which = V4L2_SUBDEV_FORMAT_TRY
              THEN /\ local' = [local EXCEPT ![t].ret = 0]
                   /\ pc' = [pc EXCEPT ![t] = "set_fmt_unlock"]
                   /\ UNCHANGED <<cur_res, format>>
              ELSE /\ cur_res' = s.idx
                   /\ format' = [width |-> r.width, height |-> r.height,
                                 field |-> V4L2_FIELD_NONE,
                                 code |-> IF ok THEN code ELSE format.code]
                   /\ local' = [local EXCEPT
                                  ![t].ret = IF ok THEN 0 ELSE -EINVAL]
                   /\ pc' = [pc EXCEPT ![t] =
                               IF ok THEN "set_fmt_unlock" ELSE "set_fmt_einval"]
  /\ call' = [call EXCEPT ![t] = [op |-> "set_fmt", which |-> which,
                                  width |-> req[1], height |-> req[2],
                                  code |-> code]]
  /\ UNCHANGED <<frame_rate, sys_activated, streaming, wr>>

\* from mutex_lock to the mutex_unlock or to the return that skips it
SetFmtLock(t, which, req, code) ==
  /\ pc[t] = "idle"
  /\ UNCHANGED aux
  /\ input_lock = 0
  /\ input_lock' = t
  /\ LET r == ar1335_try_mbus_fmt_locked([width |-> req[1], height |-> req[2]])
         ok == code \in {MEDIA_BUS_FMT_SRGGB10_1X10, MEDIA_BUS_FMT_SRGGB8_1X8}
     IN  /\ out' = [out EXCEPT ![t] =
                      [op |-> "set_fmt", idx |-> r.idx, scanned |-> r.scanned,
                       width |-> r.width, height |-> r.height]]
         /\ IF which = V4L2_SUBDEV_FORMAT_TRY
              THEN /\ local' = [local EXCEPT ![t].ret = 0]
                   /\ pc' = [pc EXCEPT ![t] = "set_fmt_unlock"]
                   /\ UNCHANGED <<cur_res, format>>
              ELSE /\ cur_res' = r.idx
                   /\ format' = [width |-> r.width, height |-> r.height,
                                 field |-> V4L2_FIELD_NONE,
                                 code |-> IF ok THEN code ELSE format.code]
                   /\ local' = [local EXCEPT
                                  ![t].ret = IF ok THEN 0 ELSE -EINVAL]
                   /\ pc' = [pc EXCEPT ![t] =
                               IF ok THEN "set_fmt_unlock" ELSE "set_fmt_einval"]
  /\ call' = [call EXCEPT ![t] = [op |-> "set_fmt", which |-> which,
                                  width |-> req[1], height |-> req[2],
                                  code |-> code]]
  /\ UNCHANGED <<frame_rate, sys_activated, streaming, wr>>

\* mutex_unlock(&dev->input_lock); return 0;   (both the TRY and ACTIVE paths)
SetFmtReturn(t) ==
  /\ pc[t] = "set_fmt_unlock"
  /\ UNCHANGED aux
  /\ input_lock' = 0
  /\ Leave(t)
  /\ UNCHANGED <<dev, streaming>>

\* return -EINVAL; on an unsupported code: the mutex stays locked
SetFmtReturnEinval(t) ==
  /\ pc[t] = "set_fmt_einval"
  /\ UNCHANGED aux
  /\ Leave(t)
  /\ UNCHANGED <<input_lock, dev, streaming>>

\* what a returning call of ar1335_set_fmt leaves for the next one to be
\* compared with: its request, its result, the device it leaves and the bus
\* transfers it has issued
Noted(t) ==
  [op |-> "set_fmt", which |-> call[t].which, width |-> call[t].width,
   height |-> call[t].height, code |-> call[t].code, ret |-> local[t].ret,
   format |-> format, cur_res |-> cur_res, wr |-> wr[t]]

\* SetFmtReturn, the call being noted in prev
SetFmtReturnNoted(t) ==
  /\ pc[t] = "set_fmt_unlock"
  /\ input_lock' = 0
  /\ prev' = Noted(t)
  /\ Leave(t)
  /\ UNCHANGED <<dev, streaming, attach, ctrl_val>>

\* SetFmtReturnEinval, the call being noted in prev
SetFmtReturnEinvalNoted(t) ==
  /\ pc[t] = "set_fmt_einval"
  /\ prev' = Noted(t)
  /\ Leave(t)
  /\ UNCHANGED <<input_lock, dev, streaming, attach, ctrl_val>>

(***************************************************************************)
(* ar1335_get_fmt                                                          *)
(***************************************************************************)
GetFmtLock(t, pad) ==
  /\ pc[t] = "idle"
  /\ UNCHANGED aux
  /\ call' = [call EXCEPT ![t] = [op |-> "get_fmt", pad |-> pad]]
  /\ IF pad # 0
       THEN /\ local' = [local EXCEPT ![t].ret = -EINVAL]
            /\ pc' = [pc EXCEPT ![t] = "get_fmt_einval"]
            /\ UNCHANGED <<input_lock, out>>
       ELSE /\ input_lock = 0
            /\ input_lock' = t
            /\ out' = [out EXCEPT ![t] =
                         [op |-> "get_fmt",
                          width |-> format.width, height |-> format.height,
                          code |-> format.code, field |-> format.field]]
            /\ local' = [local EXCEPT ![t].ret = 0]
            /\ pc' = [pc EXCEPT ![t] = "get_fmt_unlock"]
  /\ UNCHANGED <<dev, streaming, wr>>

GetFmtReturn(t) ==
  /\ pc[t] = "get_fmt_unlock"
  /\ UNCHANGED aux
  /\ input_lock' = 0
  /\ Leave(t)
  /\ UNCHANGED <<dev, streaming>>

GetFmtReturnEinval(t) ==
  /\ pc[t] = "get_fmt_einval"
  /\ UNCHANGED aux
  /\ Leave(t)
  /\ UNCHANGED <<input_lock, dev, streaming>>

(***************************************************************************)
(* ar1335_s_frame_interval takes no lock.                                  *)
(***************************************************************************)
\* the interval after "reset to max frame rate"
sfi_normalise(tpf) ==
  IF tpf[1] = 0 \/ tpf[2] = 0 \/ tpf[2] > tpf[1] * MAX_FRAME_RATE
    THEN <<1, MAX_FRAME_RATE>> ELSE tpf

\* the values written to 0x0340 and 0x0202 for a numerator
sfi_regs(numerator) ==
  IF numerator = 60 THEN <<1574, 1512>> ELSE <<3150, 3150>>

\* the denominator stored for an interval
sfi_denominator(tpf) ==
  IF tpf[1] = 30 \/ tpf[1] = 60 THEN tpf[2] ELSE MIN_FRAME_RATE

\* up to dev->frame_rate.numerator = tpf->numerator; out is *tpf
SFrameIntervalCall(t, tpf) ==
  /\ pc[t] = "idle"
  /\ UNCHANGED aux
  /\ LET n == sfi_normalise(tpf)
     IN  /\ call' = [call EXCEPT ![t] =
                       [op |-> "s_frame_interval", tpf |-> tpf]]
         /\ out' = [out EXCEPT ![t] =
                      [op |-> "s_frame_interval", tpf |-> n]]
         /\ frame_rate' = [frame_rate EXCEPT !.numerator = n[1]]
  /\ pc' = [pc EXCEPT ![t] = "sfi_0340"]
  /\ UNCHANGED <<input_lock, cur_res, format, sys_activated, streaming,
                 local, wr>>

\* ar1335_i2c_write_reg(sd, 0x340, ...): the result is dropped
SFrameIntervalFrameLength(t) ==
  /\ pc[t] = "sfi_0340"
  /\ UNCHANGED aux
  /\ \E r \in BusResults :
       wr' = [wr EXCEPT ![t] =
                Append(@, BusWrite(AR1335_REG_FRAME_LENGTH_LINES,
                                   <<sfi_regs(out[t].tpf[1])[1]>>, r))]
  /\ pc' = [pc EXCEPT ![t] = "sfi_0202"]
  /\ UNCHANGED <<input_lock, dev, streaming, call, local, out>>

\* ar1335_i2c_write_reg(sd, 0x202, ...): the result is dropped;
\* dev->frame_rate.denominator = ...; then the thread stands at "return 0"
SFrameIntervalCoarseTime(t) ==
  /\ pc[t] = "sfi_0202"
  /\ UNCHANGED aux
  /\ \E r \in BusResults :
       wr' = [wr EXCEPT ![t] =
                Append(@, BusWrite(REG_COARSE_INTEGRATION_TIME,
                                   <<sfi_regs(out[t].tpf[1])[2]>>, r))]
  /\ frame_rate' = [frame_rate EXCEPT
                      !.denominator = sfi_denominator(out[t].tpf)]
  /\ local' = [local EXCEPT ![t].ret = 0]
  /\ pc' = [pc EXCEPT ![t] = "sfi_return"]
  /\ UNCHANGED <<input_lock, cur_res, format, sys_activated, streaming,
                 call, out>>

SFrameIntervalReturn(t) ==
  /\ pc[t] = "sfi_return"
  /\ UNCHANGED aux
  /\ Leave(t)
  /\ UNCHANGED <<input_lock, dev, streaming>>

(***************************************************************************)
(* ar1335_s_register: one register write under the mutex.                  *)
(***************************************************************************)
SRegisterLock(t, reg) ==
  /\ pc[t] = "idle"
  /\ UNCHANGED aux
  /\ input_lock = 0
  /\ input_lock' = t
  /\ call' = [call EXCEPT ![t] =
                [op |-> "s_register", reg |-> reg[1], val |-> reg[2]]]
  /\ pc' = [pc EXCEPT ![t] = "s_register"]
  /\ UNCHANGED <<dev, streaming, local, wr, out>>

SRegisterWrite(t) ==
  /\ pc[t] = "s_register"
  /\ UNCHANGED aux
  /\ \E r \in BusResults :
       /\ wr' = [wr EXCEPT ![t] =
                   Append(@, BusWrite(call[t].reg, <<call[t].val>>, r))]
       /\ local' = [local EXCEPT ![t].ret = r]
  /\ pc' = [pc EXCEPT ![t] = "s_register_unlock"]
  /\ UNCHANGED <<input_lock, dev, streaming, call, out>>

SRegisterReturn(t) ==
  /\ pc[t] = "s_register_unlock"
  /\ UNCHANGED aux
  /\ input_lock' = 0
  /\ Leave(t)
  /\ UNCHANGED <<dev, streaming>>

(***************************************************************************)
(* ar1335_g_frame_interval                                                 *)
(***************************************************************************)
GFrameIntervalLock(t) ==
  /\ pc[t] = "idle"
  /\ UNCHANGED aux
  /\ input_lock = 0
  /\ input_lock' = t
  /\ call' = [call EXCEPT ![t] = [op |-> "g_frame_interval"]]
  /\ out' = [out EXCEPT ![t] =
               [op |-> "g_frame_interval",
                tpf |-> <<frame_rate.numerator, frame_rate.denominator>>]]
  /\ local' = [local EXCEPT ![t].ret = 0]
  /\ pc' = [pc EXCEPT ![t] = "gfi_unlock"]
  /\ UNCHANGED <<dev, streaming, wr>>

GFrameIntervalReturn(t) ==
  /\ pc[t] = "gfi_unlock"
  /\ UNCHANGED aux
  /\ input_lock' = 0
  /\ Leave(t)
  /\ UNCHANGED <<dev, streaming>>

\* SFrameIntervalReturn, the call being noted in prev
SFrameIntervalReturnNoted(t) ==
  /\ pc[t] = "sfi_return"
  /\ prev' = [op |-> "s_frame_interval", tpf |-> call[t].tpf,
              out |-> out[t].tpf, ret |-> local[t].ret]
  /\ Leave(t)
  /\ UNCHANGED <<input_lock, dev, streaming, attach, ctrl_val>>

(***************************************************************************)
(* ar1335_enum_frame_size.  dev->res_table is never assigned: it is the    *)
(* null pointer devm_kzalloc left, and res_table[index] reads through it.  *)
(***************************************************************************)
\* mutex_lock and the test index >= dev->cur_res
EnumFrameSizeLock(t, index) ==
  /\ pc[t] = "idle"
  /\ UNCHANGED aux
  /\ input_lock = 0
  /\ input_lock' = t
  /\ call' = [call EXCEPT ![t] = [op |-> "enum_frame_size", index |-> index]]
  /\ IF index >= cur_res
       THEN /\ local' = [local EXCEPT ![t].ret = -EINVAL]
            /\ pc' = [pc EXCEPT ![t] = "enum_unlock"]
       ELSE /\ pc' = [pc EXCEPT ![t] = "enum_read"]
            /\ UNCHANGED local
  /\ UNCHANGED <<dev, streaming, wr, out>>

\* fse->min_width = res_table[index].width ... through the null pointer:
\* the read faults and the thread dies in the kernel holding the mutex, or
\* it hands back whatever lies at the address
EnumFrameSizeRead(t) ==
  /\ pc[t] = "enum_read"
  /\ UNCHANGED aux
  /\ \/ /\ pc' = [pc EXCEPT ![t] = "enum_oops"]
        /\ UNCHANGED <<local, out>>
     \/ \E m \in StrayMemory :
          /\ out' = [out EXCEPT ![t] =
                       [op |-> "enum_frame_size",
                        min_width |-> m[1], min_height |-> m[2],
                        max_width |-> m[1], max_height |-> m[2]]]
          /\ local' = [local EXCEPT ![t].ret = 0]
          /\ pc' = [pc EXCEPT ![t] = "enum_unlock"]
  /\ UNCHANGED <<input_lock, dev, streaming, call, wr>>

\* mutex_unlock and the return of either path
EnumFrameSizeReturn(t) ==
  /\ pc[t] = "enum_unlock"
  /\ UNCHANGED aux
  /\ input_lock' = 0
  /\ Leave(t)
  /\ UNCHANGED <<dev, streaming>>

(***************************************************************************)
(* ar1335_s_ctrl.  The control framework calls it with the handler's lock  *)
(* held, which ar1335_probe has made dev->input_lock, and stores the value *)
(* as the control's current one when it returns 0.                         *)
(***************************************************************************)
ar1335_gain_values == <<8213, 8229, 8245, 11199, 22335, 44607>>

ar1335_test_pattern_values == <<0, 1, 2, 3, 256, 257>>

ar1335_defect_cor ==
  <<
    <<12768, 1921>>, <<16128, 79>>, <<16130, 293>>, <<16132, 32>>,
    <<16134, 64>>, <<16136, 112>>, <<16138, 257>>, <<16140, 770>>,
    <<16158, 34>>, <<16154, 511>>, <<16148, 257>>, <<16196, 1799>>,
    <<16152, 286>>, <<16146, 771>>, <<16194, 5393>>, <<16150, 286>>,
    <<16144, 1285>>, <<16192, 5393>>, <<AR1335_TABLE_END, 0>>
  >>

ar1335_hdr_on ==
  <<
    <<12666, 16750>>, <<1024, 0>>, <<16122, 1807>>, <<16124, 1807>>,
    <<12768, 145>>, <<12652, 33792>>, <<12350, 1>>, <<12306, 2400>>,
    <<12424, 300>>, <<12382, 8211>>,
    <<AR1335_TABLE_WAIT_MS, AR1335_WAIT_MS>>, <<AR1335_TABLE_END, 0>>
  >>

ar1335_hdr_off ==
  <<
    <<16122, 3855>>, <<16124, 3855>>, <<12768, 1921>>, <<12652, 33280>>,
    <<12350, 0>>, <<12382, 8208>>,
    <<AR1335_TABLE_WAIT_MS, AR1335_WAIT_MS>>, <<AR1335_TABLE_END, 0>>
  >>

\* bit b of a 16-bit register value
Bit(v, b) == (v \div (2 ^ b)) % 2

\* reg_val |= (1 << b) and reg_val &= ~(1 << b)
SetBit(v, b) == IF Bit(v, b) = 1 THEN v ELSE v + 2 ^ b
ClearBit(v, b) == IF Bit(v, b) = 1 THEN v - 2 ^ b ELSE v

\* the controls that read, change and write back register 0x3040
FlipControls == {"V4L2_CID_VFLIP", "V4L2_CID_HFLIP"}

\* <<register, value>> written by ar1335_set_gain, ar1335_test_pattern,
\* ar1335_set_line_length_pck, ar1335_set_coarse_integration_time and the
\* else branch of ar1335_defect_correction
ctrl_write(id, val) ==
  IF id = "V4L2_CID_GAIN" THEN <<REG_GLOBAL_GAIN, ar1335_gain_values[val + 1]>>
  ELSE IF id = "V4L2_CID_TEST_PATTERN"
    THEN <<1536, ar1335_test_pattern_values[val + 1]>>
  ELSE IF id = "V4L2_CID_LENGTH_LINE_PCK" THEN <<REG_LINE_LENGTH_PCK, val>>
  ELSE IF id = "V4L2_CID_COARSE_INT_TIME"
    THEN <<REG_COARSE_INTEGRATION_TIME, val>>
  ELSE <<12768, 0>>

\* the table ar1335_hdr_mode and ar1335_defect_correction send
ctrl_table(id, val) ==
  IF id = "V4L2_CID_HDR_MODE"
    THEN (IF val # 0 THEN ar1335_hdr_on ELSE ar1335_hdr_off)
    ELSE ar1335_defect_cor

\* the bit of register 0x3040 a flip control drives
flip_bit(id) == IF id = "V4L2_CID_HFLIP" THEN 14 ELSE 15

\* controls and values set by the callers
CtrlRequests ==
  { <<"V4L2_CID_GAIN", 3>>, <<"V4L2_CID_TEST_PATTERN", 2>>,
    <<"V4L2_CID_VFLIP", 1>>, <<"V4L2_CID_HFLIP", 0>>,
    <<"V4L2_CID_HDR_MODE", 1>>, <<"V4L2_CID_HDR_MODE", 0>>,
    <<"V4L2_CID_DEFECT_CORRECTION", 1>>, <<"V4L2_CID_DEFECT_CORRECTION", 0>>,
    <<"V4L2_CID_LENGTH_LINE_PCK", 5000>>,
    <<"V4L2_CID_COARSE_INT_TIME", 1000>> }

\* what a read of register 0x3040 may return: the values the mode tables
\* write to it, 0x4041 and 0x0043
ImageOrientationReads == {16449, 67}

\* the framework locks the handler and calls ar1335_s_ctrl; the switch
\* selects the helper
SCtrlLock(t, ctrl) ==
  /\ pc[t] = "idle"
  /\ input_lock = 0
  /\ input_lock' = t
  /\ call' = [call EXCEPT ![t] =
                [op |-> "s_ctrl", id |-> ctrl[1], val |-> ctrl[2]]]
  /\ local' = [local EXCEPT ![t] = [idx |-> 0, next |-> 1, ret |-> 0]]
  /\ pc' = [pc EXCEPT ![t] =
              IF ctrl[1] \in FlipControls THEN "s_ctrl_flip"
              ELSE IF ctrl[1] = "V4L2_CID_HDR_MODE"
                      \/ (ctrl[1] = "V4L2_CID_DEFECT_CORRECTION" /\ ctrl[2] # 0)
                THEN "s_ctrl_table"
              ELSE "s_ctrl_write"]
  /\ UNCHANGED <<dev, streaming, wr, out, aux>>

\* the helpers that are one ar1335_i2c_write_reg
SCtrlWrite(t) ==
  /\ pc[t] = "s_ctrl_write"
  /\ \E r \in BusResults :
       /\ wr' = [wr EXCEPT ![t] =
                   Append(@, BusWrite(ctrl_write(call[t].id, call[t].val)[1],
                                      <<ctrl_write(call[t].id, call[t].val)[2]>>,
                                      r))]
       /\ local' = [local EXCEPT ![t].ret = r]
  /\ pc' = [pc EXCEPT ![t] = "s_ctrl_break"]
  /\ UNCHANGED <<input_lock, dev, streaming, call, out, aux>>

\* ar1335_set_hmirror and ar1335_set_vflip: register 0x3040 is read, the
\* bit is set or cleared and the register written back; a failed read
\* returns before the write
SCtrlFlip(t) ==
  /\ pc[t] = "s_ctrl_flip"
  /\ \E r \in BusResults, v \in ImageOrientationReads, r2 \in BusResults :
       LET reg_val == IF call[t].val = 1
                        THEN SetBit(v, flip_bit(call[t].id))
                        ELSE ClearBit(v, flip_bit(call[t].id))
       IN  IF r # 0
             THEN /\ wr' = [wr EXCEPT ![t] = Append(@, BusRead(12352, v, r))]
                  /\ local' = [local EXCEPT ![t].ret = r]
             ELSE /\ wr' = [wr EXCEPT ![t] =
                              @ \o << BusRead(12352, v, r),
                                      BusWrite(12352, <<reg_val>>, r2) >>]
                  /\ local' = [local EXCEPT ![t].ret = r2]
  /\ pc' = [pc EXCEPT ![t] = "s_ctrl_break"]
  /\ UNCHANGED <<input_lock, dev, streaming, call, out, aux>>

\* one iteration of the loop of ar1335_write_table as ar1335_hdr_mode and
\* ar1335_defect_correction call it: they return its result
SCtrlTable(t) ==
  /\ pc[t] = "s_ctrl_table"
  /\ LET e == ctrl_table(call[t].id, call[t].val)[local[t].next]
     IN  IF e[1] = AR1335_TABLE_END
           THEN /\ local' = [local EXCEPT ![t].ret = 0, ![t].next = 1]
                /\ pc' = [pc EXCEPT ![t] = "s_ctrl_break"]
                /\ UNCHANGED wr
         ELSE IF e[1] = AR1335_TABLE_WAIT_MS
           THEN /\ local' = [local EXCEPT ![t].next = @ + 1]
                /\ UNCHANGED <<pc, wr>>
         ELSE \E r \in BusResults :
                /\ wr' = [wr EXCEPT ![t] =
                            Append(@, BusWrite(e[1], <<e[2]>>, r))]
                /\ IF r # 0
                     THEN /\ local' = [local EXCEPT ![t].ret = r, ![t].next = 1]
                          /\ pc' = [pc EXCEPT ![t] = "s_ctrl_break"]
                     ELSE /\ local' = [local EXCEPT ![t].next = @ + 1]
                          /\ UNCHANGED pc
  /\ UNCHANGED <<input_lock, dev, streaming, call, out, aux>>

\* break; return 0;   the result of the helper is dropped
SCtrlBreak(t) ==
  /\ pc[t] = "s_ctrl_break"
  /\ local' = [local EXCEPT ![t].ret = 0]
  /\ pc' = [pc EXCEPT ![t] = "s_ctrl_return"]
  /\ UNCHANGED <<input_lock, dev, streaming, call, wr, out, aux>>

\* back in the framework: the value becomes the control's current value
\* when ar1335_s_ctrl has returned 0, and the handler is unlocked
SCtrlReturn(t) ==
  /\ pc[t] = "s_ctrl_return"
  /\ input_lock' = 0
  /\ ctrl_val' = IF local[t].ret = 0
                   THEN [ctrl_val EXCEPT ![call[t].id] = <<call[t].val>>]
                   ELSE ctrl_val
  /\ Leave(t)
  /\ UNCHANGED <<dev, streaming, attach, prev>>

(***************************************************************************)
(* ar1335_probe, with ar1335_power_on, ar1335_identify_module,             *)
(* ar1335_sw_reset and ar1335_remove as it calls them.                     *)
(***************************************************************************)
\* what a read of a chip-ID register may return: the two expected values
\* and one that is neither
ChipIdReads == {339, 1546, 0}

\* the device memory before devm_kzalloc
NoFormat == [width |-> 0, height |-> 0, code |-> "0", field |-> "ANY"]

InitProbe ==
  /\ input_lock = 0
  /\ cur_res = 0
  /\ format = NoFormat
  /\ frame_rate = [numerator |-> 0, denominator |-> 0]
  /\ sys_activated = FALSE
  /\ streaming = FALSE
  /\ pc = [t \in Threads |-> "idle"]
  /\ call = [t \in Threads |-> NoCall]
  /\ local = [t \in Threads |-> NoLocal]
  /\ wr = [t \in Threads |-> << >>]
  /\ out = [t \in Threads |-> NoOut]
  /\ attach = [state |-> "none", unregistered |-> 0]
  /\ ctrl_val = NoCtrlVal
  /\ prev = NoPrev

\* ar1335_remove and the out_free label: v4l2_device_unregister_subdev
Unregister == attach' = [attach EXCEPT !.unregistered = @ + 1]

\* devm_kzalloc, mutex_init, the format and the frame rate, then
\* devm_regmap_init_i2c; ok is whether the allocations succeed
ProbeAlloc(t, ok) ==
  /\ pc[t] = "idle"
  /\ attach.state = "none"
  /\ attach' = [attach EXCEPT !.state = "probing"]
  /\ call' = [call EXCEPT ![t] = [op |-> "probe"]]
  /\ IF ok
       THEN /\ format' = [width |-> AR1335_WIDTH_MAX,
                          height |-> AR1335_HEIGHT_MAX,
                          code |-> MEDIA_BUS_FMT_SRGGB10_1X10,
                          field |-> V4L2_FIELD_NONE]
            /\ frame_rate' = [numerator |-> 1,
                              denominator |-> AR1335_DEF_FRAME_RATE]
            /\ local' = [local EXCEPT ![t].ret = 0]
            /\ pc' = [pc EXCEPT ![t] = "identify_00"]
       ELSE /\ local' = [local EXCEPT ![t].ret = -ENOMEM]
            /\ pc' = [pc EXCEPT ![t] = "probe_return"]
            /\ UNCHANGED <<format, frame_rate>>
  /\ UNCHANGED <<input_lock, cur_res, sys_activated, streaming, wr, out,
                 ctrl_val, prev>>

\* ar1335_identify_module: the read of register 0x00 and its test
ProbeIdentify00(t) ==
  /\ pc[t] = "identify_00"
  /\ \E r \in BusResults, val \in ChipIdReads :
       /\ wr' = [wr EXCEPT ![t] = Append(@, BusRead(0, val, r))]
       /\ IF r # 0
            THEN /\ local' = [local EXCEPT ![t].ret = r]
                 /\ pc' = [pc EXCEPT ![t] = "power_on_remove"]
          ELSE IF val # 339
            THEN /\ local' = [local EXCEPT ![t].ret = -ENXIO]
                 /\ pc' = [pc EXCEPT ![t] = "power_on_remove"]
          ELSE /\ pc' = [pc EXCEPT ![t] = "identify_03"]
               /\ UNCHANGED local
  /\ UNCHANGED <<input_lock, dev, streaming, call, out, aux>>

\* the second read with its test dropped: only a failed read is an error
ProbeIdentify03_untested(t) ==
  /\ pc[t] = "identify_03"
  /\ \E r \in BusResults, val \in ChipIdReads :
       /\ wr' = [wr EXCEPT ![t] = Append(@, BusRead(3, val, r))]
       /\ IF r # 0
            THEN /\ local' = [local EXCEPT ![t].ret = r]
                 /\ pc' = [pc EXCEPT ![t] = "power_on_remove"]
          ELSE /\ pc' = [pc EXCEPT ![t] = "sw_reset"]
               /\ UNCHANGED local
  /\ UNCHANGED <<input_lock, dev, streaming, call, out, aux>>

\* ar1335_identify_module: the read of register 0x03 and its test
ProbeIdentify03(t) ==
  /\ pc[t] = "identify_03"
  /\ \E r \in BusResults, val \in ChipIdReads :
       /\ wr' = [wr EXCEPT ![t] = Append(@, BusRead(3, val, r))]
       /\ IF r # 0
            THEN /\ local' = [local EXCEPT ![t].ret = r]
                 /\ pc' = [pc EXCEPT ![t] = "power_on_remove"]
          ELSE IF val # 1546
            THEN /\ local' = [local EXCEPT ![t].ret = -ENXIO]
                 /\ pc' = [pc EXCEPT ![t] = "power_on_remove"]
          ELSE /\ pc' = [pc EXCEPT ![t] = "sw_reset"]
               /\ UNCHANGED local
  /\ UNCHANGED <<input_lock, dev, streaming, call, out, aux>>

\* ar1335_sw_reset from mutex_lock to mutex_unlock: the write of 0x100 to
\* register 0x103, whose result is returned, and two reads whose results
\* are dropped
ProbeSwReset(t) ==
  /\ pc[t] = "sw_reset"
  /\ input_lock = 0
  /\ \E r \in BusResults, r1 \in BusResults, r2 \in BusResults :
       /\ wr' = [wr EXCEPT ![t] =
                   @ \o << BusWrite(259, <<256>>, r), BusRead(259, 0, r1),
                           BusRead(259, 0, r2) >>]
       /\ local' = [local EXCEPT ![t].ret = r, ![t].next = 1]
       /\ pc' = [pc EXCEPT ![t] =
                   IF r # 0 THEN "power_on_remove" ELSE "initial_regs"]
  /\ UNCHANGED <<input_lock, dev, streaming, call, out, aux>>

\* the loop over initial_regs with a failed write not looked at
ProbeInitialRegs_unchecked(t) ==
  /\ pc[t] = "initial_regs"
  /\ IF local[t].next > Len(initial_regs)
       THEN /\ local' = [local EXCEPT ![t].ret = 0, ![t].next = 1]
            /\ pc' = [pc EXCEPT ![t] = "ctrl_init"]
            /\ UNCHANGED wr
       ELSE \E r \in BusResults :
              /\ wr' = [wr EXCEPT ![t] =
                          Append(@, BusWrite(initial_regs[local[t].next][1],
                                             <<initial_regs[local[t].next][2]>>,
                                             r))]
              /\ local' = [local EXCEPT ![t].next = @ + 1]
              /\ UNCHANGED pc
  /\ UNCHANGED <<input_lock, dev, streaming, call, out, aux>>

\* one iteration of the loop of ar1335_power_on over initial_regs: a failed
\* write leaves the loop and power_on returns -1, which takes ar1335_probe
\* to out_free
ProbeInitialRegs(t) ==
  /\ pc[t] = "initial_regs"
  /\ IF local[t].next > Len(initial_regs)
       THEN /\ local' = [local EXCEPT ![t].ret = 0, ![t].next = 1]
            /\ pc' = [pc EXCEPT ![t] = "ctrl_init"]
            /\ UNCHANGED wr
       ELSE \E r \in BusResults :
              /\ wr' = [wr EXCEPT ![t] =
                          Append(@, BusWrite(initial_regs[local[t].next][1],
                                             <<initial_regs[local[t].next][2]>>,
                                             r))]
              /\ IF r # 0
                   THEN /\ local' = [local EXCEPT ![t].ret = -1, ![t].next = 1]
                        /\ pc' = [pc EXCEPT ![t] = "out_free"]
                   ELSE /\ local' = [local EXCEPT ![t].next = @ + 1]
                        /\ UNCHANGED pc
  /\ UNCHANGED <<input_lock, dev, streaming, call, out, aux>>

\* the failure paths of ar1335_power_on after identify and reset:
\* ar1335_remove(client); return ret; and in ar1335_probe "goto out_free"
ProbePowerOnRemove(t) ==
  /\ pc[t] = "power_on_remove"
  /\ Unregister
  /\ pc' = [pc EXCEPT ![t] = "out_free"]
  /\ UNCHANGED <<input_lock, dev, streaming, call, local, wr, out,
                 ctrl_val, prev>>

\* v4l2_ctrl_handler_init and the creation of the controls; on a failure
\* ar1335_remove is called and the error returned
ProbeCtrlInit(t, ok) ==
  /\ pc[t] = "ctrl_init"
  /\ IF ok
       THEN /\ pc' = [pc EXCEPT ![t] = "pads_init"]
            /\ UNCHANGED <<local, attach>>
       ELSE /\ Unregister
            /\ local' = [local EXCEPT ![t].ret = -ENOMEM]
            /\ pc' = [pc EXCEPT ![t] = "probe_return"]
  /\ UNCHANGED <<input_lock, dev, streaming, call, wr, out, ctrl_val, prev>>

\* media_entity_pads_init: on a failure ar1335_remove is called and the
\* probe goes on
ProbePadsInit(t, ok) ==
  /\ pc[t] = "pads_init"
  /\ IF ok THEN UNCHANGED attach ELSE Unregister
  /\ pc' = [pc EXCEPT ![t] = "register"]
  /\ UNCHANGED <<input_lock, dev, streaming, call, local, wr, out,
                 ctrl_val, prev>>

\* ret = v4l2_async_register_subdev(&dev->sd)
ProbeRegister(t, ok) ==
  /\ pc[t] = "register"
  /\ IF ok
       THEN /\ attach' = [attach EXCEPT !.state = "registered"]
            /\ local' = [local EXCEPT ![t].ret = 0]
            /\ pc' = [pc EXCEPT ![t] = "probe_return"]
       ELSE /\ local' = [local EXCEPT ![t].ret = -ENOMEM]
            /\ pc' = [pc EXCEPT ![t] = "out_free"]
            /\ UNCHANGED attach
  /\ UNCHANGED <<input_lock, dev, streaming, call, wr, out, ctrl_val, prev>>

\* out_free: v4l2_device_unregister_subdev(&dev->sd); the thread then
\* stands at "return ret"
ProbeOutFree(t) ==
  /\ pc[t] = "out_free"
  /\ Unregister
  /\ pc' = [pc EXCEPT ![t] = "probe_return"]
  /\ UNCHANGED <<input_lock, dev, streaming, call, local, wr, out,
                 ctrl_val, prev>>

\* return ret; a probe that returns an error leaves no device
ProbeReturn(t) ==
  /\ pc[t] = "probe_return"
  /\ attach' = [attach EXCEPT
                  !.state = IF local[t].ret # 0 THEN "failed" ELSE @]
  /\ Leave(t)
  /\ UNCHANGED <<input_lock, dev, streaming, ctrl_val, prev>>

\* the i2c core calls ar1335_probe once, from one thread
NextProbe ==
  \/ \E ok \in BOOLEAN : ProbeAlloc(1, ok)
  \/ ProbeIdentify00(1)
  \/ ProbeIdentify03(1)
  \/ ProbeSwReset(1)
  \/ ProbeInitialRegs(1)
  \/ ProbePowerOnRemove(1)
  \/ \E ok \in BOOLEAN : ProbeCtrlInit(1, ok)
  \/ \E ok \in BOOLEAN : ProbePadsInit(1, ok)
  \/ \E ok \in BOOLEAN : ProbeRegister(1, ok)
  \/ ProbeOutFree(1)
  \/ ProbeReturn(1)

SpecProbe == InitProbe /\ [][NextProbe]_vars

(***************************************************************************)
(* The driver with all its entry points, called from every thread.         *)
(***************************************************************************)
Next ==
  \E t \in Threads :
    \/ \E enable \in {0, 1} : SStreamLock(t, enable)
    \/ SStreamGeometry(t)
    \/ SStreamModeTable(t)
    \/ SStreamStartTable(t)
    \/ SStreamStopTable(t)
    \/ SStreamReturn(t)
    \/ \E which \in {V4L2_SUBDEV_FORMAT_TRY, V4L2_SUBDEV_FORMAT_ACTIVE},
          req \in StreamRequests, code \in PixelCodes :
         SetFmtLock(t, which, req, code)
    \/ SetFmtReturn(t)
    \/ SetFmtReturnEinval(t)
    \/ \E pad \in {0, 1} : GetFmtLock(t, pad)
    \/ GetFmtReturn(t)
    \/ GetFmtReturnEinval(t)
    \/ \E tpf \in Intervals : SFrameIntervalCall(t, tpf)
    \/ SFrameIntervalFrameLength(t)
    \/ SFrameIntervalCoarseTime(t)
    \/ SFrameIntervalReturn(t)
    \/ \E reg \in DebugWrites : SRegisterLock(t, reg)
    \/ SRegisterWrite(t)
    \/ SRegisterReturn(t)

Spec == Init /\ [][Next]_vars

(***************************************************************************)
(* The format entry points alone, called from one thread, over a wider set *)
(* of requested sizes.                                                     *)
(***************************************************************************)
NextFmt ==
  \/ \E which \in {V4L2_SUBDEV_FORMAT_TRY, V4L2_SUBDEV_FORMAT_ACTIVE},
        req \in FormatRequests, code \in PixelCodes :
       SetFmtLock(1, which, req, code)
  \/ SetFmtReturn(1)
  \/ SetFmtReturnEinval(1)
  \/ \E pad \in {0, 1} : GetFmtLock(1, pad)
  \/ GetFmtReturn(1)
  \/ GetFmtReturnEinval(1)

SpecFmt == Init /\ [][NextFmt]_vars

(***************************************************************************)
(* ar1335_set_fmt alone, called from one thread with every size of the     *)
(* grid: the matcher is applied to each of them.                           *)
(***************************************************************************)
NextMatch ==
  \/ \E which \in {V4L2_SUBDEV_FORMAT_TRY, V4L2_SUBDEV_FORMAT_ACTIVE},
        req \in MatchRequests, code \in PixelCodes :
       SetFmtLock(1, which, req, code)
  \/ SetFmtReturn(1)
  \/ SetFmtReturnEinval(1)

SpecMatch == Init /\ [][NextMatch]_vars

(***************************************************************************)
(* Calls of ar1335_set_fmt one after the other from one thread, each call  *)
(* noted when it returns.                                                  *)
(***************************************************************************)
NextRepeat ==
  \/ \E which \in {V4L2_SUBDEV_FORMAT_TRY, V4L2_SUBDEV_FORMAT_ACTIVE},
        req \in FormatRequests, code \in PixelCodes :
       SetFmtLock(1, which, req, code)
  \/ SetFmtReturnNoted(1)
  \/ SetFmtReturnEinvalNoted(1)

SpecRepeat == Init /\ [][NextRepeat]_vars

(***************************************************************************)
(* The controls, the stream switch and the frame interval, called from one *)
(* thread.                                                                 *)
(***************************************************************************)
NextCtrl ==
  \/ \E ctrl \in CtrlRequests : SCtrlLock(1, ctrl)
  \/ SCtrlWrite(1)
  \/ SCtrlFlip(1)
  \/ SCtrlTable(1)
  \/ SCtrlBreak(1)
  \/ SCtrlReturn(1)
  \/ \E enable \in {0, 1} : SStreamLock(1, enable)
  \/ SStreamGeometry(1)
  \/ SStreamModeTable(1)
  \/ SStreamStartTable(1)
  \/ SStreamStopTable(1)
  \/ SStreamReturn(1)
  \/ \E tpf \in Intervals : SFrameIntervalCall(1, tpf)
  \/ SFrameIntervalFrameLength(1)
  \/ SFrameIntervalCoarseTime(1)
  \/ SFrameIntervalReturn(1)

SpecCtrl == Init /\ [][NextCtrl]_vars

(***************************************************************************)
(* ar1335_enum_frame_size between calls of ar1335_set_fmt, from one        *)
(* thread.                                                                 *)
(***************************************************************************)
NextEnum ==
  \/ \E which \in {V4L2_SUBDEV_FORMAT_TRY, V4L2_SUBDEV_FORMAT_ACTIVE},
        req \in FormatRequests, code \in PixelCodes :
       SetFmtLock(1, which, req, code)
  \/ SetFmtReturn(1)
  \/ SetFmtReturnEinval(1)
  \/ \E index \in EnumIndexes : EnumFrameSizeLock(1, index)
  \/ EnumFrameSizeRead(1)
  \/ EnumFrameSizeReturn(1)

SpecEnum == Init /\ [][NextEnum]_vars

(***************************************************************************)
(* The frame interval set and read back, from one thread, each call of     *)
(* ar1335_s_frame_interval noted when it returns.                          *)
(***************************************************************************)
NextInterval ==
  \/ \E tpf \in IntervalRequests : SFrameIntervalCall(1, tpf)
  \/ SFrameIntervalFrameLength(1)
  \/ SFrameIntervalCoarseTime(1)
  \/ SFrameIntervalReturnNoted(1)
  \/ GFrameIntervalLock(1)
  \/ GFrameIntervalReturn(1)

SpecInterval == Init /\ [][NextInterval]_vars

(***************************************************************************)
(* Vocabulary of the properties.                                           *)
(***************************************************************************)
\* thread t is inside ar1335_s_stream(enable)
InSStream(t, enable) ==
  call[t].op = "s_stream" /\ call[t].enable = enable

\* thread t stands at the return statement of ar1335_s_stream
AtSStreamReturn(t) == call[t].op = "s_stream" /\ pc[t] = "error"

\* thread t is inside ar1335_set_fmt for the active format
InSetFmtActive(t) ==
  call[t].op = "set_fmt" /\ call[t].which = V4L2_SUBDEV_FORMAT_ACTIVE

\* w is a single-register write of val to addr
IsRegWrite(w, addr, val) == w.addr = addr /\ w.data = <<val>>

IsStreamEnable(w) == IsRegWrite(w, REG_RESET_REGISTER, STREAM_ON_VALUE)
IsStreamDisable(w) == IsRegWrite(w, REG_RESET_REGISTER, STREAM_OFF_VALUE)

\* the successful writes of a whole register table, in table order
RECURSIVE TableWrites(_)
TableWrites(table) ==
  IF Head(table)[1] = AR1335_TABLE_END THEN << >>
  ELSE IF Head(table)[1] = AR1335_TABLE_WAIT_MS THEN TableWrites(Tail(table))
  ELSE << BusWrite(Head(table)[1], <<Head(table)[2]>>, 0) >>
         \o TableWrites(Tail(table))

\* the driver has no errno of its own for a call made in the wrong state:
\* any error return that is not a bus error counts as InvalidState
IsInvalidState(r) == r < 0 /\ r \notin BusErrors

\* the largest declared mode, as a C index
LargestMode == res_num - 1

Oversize(t) ==
  \/ call[t].width > ar1335_res_table[res_num].width
  \/ call[t].height > ar1335_res_table[res_num].height

(***************************************************************************)
(* C1.  In every stream-start that returns success, the write that sets    *)
(* the stream-enable bits (0x301A = 0x023C) is the last bus write of the   *)
(* call; it comes after the geometry burst and after every entry of the    *)
(* register table of the current mode, which were issued in that order.    *)
(***************************************************************************)
C1_StreamEnableIsLastWrite ==
  \A t \in Threads :
    (AtSStreamReturn(t) /\ InSStream(t, 1) /\ local[t].ret = 0) =>
      LET n == Len(wr[t])
          mode == TableWrites(ar1335_res_table[cur_res + 1].ar1335_mode)
      IN  /\ n > 1 + Len(mode)
          /\ IsStreamEnable(wr[t][n]) /\ wr[t][n].ok
          /\ \A i \in 1..(n - 1) : ~IsStreamEnable(wr[t][i])
          /\ wr[t][1].addr = AR1335_REG_X_ADDR_START
          /\ wr[t][1].data = ar1335_set_geometry(format)
          /\ SubSeq(wr[t], 2, 1 + Len(mode)) = mode

C1_Witness ==
  \E t \in Threads :
    /\ AtSStreamReturn(t) /\ InSStream(t, 1) /\ local[t].ret = 0
    /\ cur_res = 1
    /\ IsStreamEnable(wr[t][Len(wr[t])])

(***************************************************************************)
(* C2.  During stream start, frame-length-lines (0x0340) and               *)
(* line-length-pck (0x0342) are written before the window burst that       *)
(* starts at 0x0344.                                                       *)
(***************************************************************************)
C2_FrameLengthBeforeWindow ==
  \A t \in Threads :
    InSStream(t, 1) =>
      \A i \in 1..Len(wr[t]) :
        wr[t][i].addr = AR1335_REG_X_ADDR_START =>
          /\ \E j \in 1..(i - 1) : wr[t][j].addr = AR1335_REG_FRAME_LENGTH_LINES
          /\ \E j \in 1..(i - 1) : wr[t][j].addr = REG_LINE_LENGTH_PCK

(***************************************************************************)
(* C3.  In every stream-stop, the global gain register (0x305E) is written *)
(* before the write that clears the stream-enable bit (0x301A = 0x0210),   *)
(* and that write is the last write of the call.                           *)
(***************************************************************************)
C3_GainResetBeforeStreamDisable ==
  \A t \in Threads :
    InSStream(t, 0) =>
      \A i \in 1..Len(wr[t]) :
        IsStreamDisable(wr[t][i]) =>
          /\ i = Len(wr[t])
          /\ \E j \in 1..(i - 1) : wr[t][j].addr = REG_GLOBAL_GAIN

(***************************************************************************)
(* C4.  If any bus write of a stream-start or stream-stop fails (geometry  *)
(* burst, mode-table entry, start/stop-table entry), s_stream returns a    *)
(* non-zero error.                                                         *)
(***************************************************************************)
C4_FailedWriteReturnsError ==
  \A t \in Threads :
    (AtSStreamReturn(t) /\ \E i \in 1..Len(wr[t]) : ~wr[t][i].ok) =>
      local[t].ret # 0

(***************************************************************************)
(* C5.  During stream start the stream-enable write is issued only after   *)
(* every write before it (geometry burst, mode-table entries) succeeded.   *)
(***************************************************************************)
C5_EnableOnlyAfterSuccessfulWrites ==
  \A t \in Threads :
    InSStream(t, 1) =>
      \A i \in 1..Len(wr[t]) :
        IsStreamEnable(wr[t][i]) => \A j \in 1..(i - 1) : wr[t][j].ok

(***************************************************************************)
(* C6.  Every entry point that writes sensor registers holds the device    *)
(* lock while it does: a thread issues a bus write only as the holder of   *)
(* the lock, and while one thread stands between the first and the last    *)
(* bus write of its call no other thread issues a bus write.               *)
(***************************************************************************)
\* thread t has issued a bus write and its next step issues another one
MidSequence(t) ==
  /\ wr[t] # << >>
  /\ \/ pc[t] = "mode_table"
     \/ pc[t] = "start_table"
          /\ ar1335_start_stream[local[t].next][1] # AR1335_TABLE_END
     \/ pc[t] = "stop_table"
          /\ ar1335_stop_stream[local[t].next][1] # AR1335_TABLE_END
     \/ pc[t] = "sfi_0202"

\* this step of thread u issues a bus write
IssuesWrite(u) == Len(wr'[u]) > Len(wr[u])

C6_WritesUnderLock ==
  [][\A u \in Threads :
       IssuesWrite(u) =>
         /\ input_lock = u
         /\ \A t \in Threads \ {u} : ~MidSequence(t)]_vars

(***************************************************************************)
(* C7.  While the device is Streaming, set_format of the active format is  *)
(* rejected with InvalidState and leaves FormatState and the current mode  *)
(* unchanged.                                                              *)
(***************************************************************************)
C7_SetFmtRejectedWhileStreaming ==
  [][\A t \in Threads :
       (streaming /\ pc[t] = "idle" /\ InSetFmtActive(t)') =>
         /\ IsInvalidState(local'[t].ret)
         /\ format' = format
         /\ cur_res' = cur_res]_vars

(***************************************************************************)
(* C8.  Stream-stop called while no stream has been started (state Off)    *)
(* fails with InvalidState.                                                *)
(***************************************************************************)
C8_StopFromOffFails ==
  \A t \in Threads :
    (AtSStreamReturn(t) /\ InSStream(t, 0) /\ ~sys_activated) =>
      IsInvalidState(local[t].ret)

(***************************************************************************)
(* C9.  A stream-start called while already Streaming issues no bus write, *)
(* and returns either success (a no-op) or InvalidState.                   *)
(***************************************************************************)
C9_SecondStartIssuesNothing ==
  \A t \in Threads :
    (InSStream(t, 1) /\ streaming) =>
      /\ wr[t] = << >>
      /\ AtSStreamReturn(t) =>
           (local[t].ret = 0 \/ IsInvalidState(local[t].ret))

(***************************************************************************)
(* C10.  For every requested size that exceeds the largest declared mode   *)
(* (3840x2160) in width or in height, set_format selects the largest mode  *)
(* without running the mismatch/distance scan.                             *)
(***************************************************************************)
C10_OversizeSelectsLargest ==
  \A t \in Threads :
    (call[t].op = "set_fmt" /\ Oversize(t)) =>
      /\ out[t].idx = LargestMode
      /\ out[t].width = 3840 /\ out[t].height = 2160
      /\ ~out[t].scanned
      /\ InSetFmtActive(t) =>
           /\ cur_res = LargestMode
           /\ format.width = 3840 /\ format.height = 2160

C10_Witness ==
  \E t \in Threads :
    /\ InSetFmtActive(t) /\ pc[t] = "set_fmt_unlock"
    /\ call[t].width > 3840 /\ call[t].height <= 2160
    /\ cur_res = LargestMode

(***************************************************************************)
(* The matcher against exact arithmetic.                                   *)
(***************************************************************************)
\* floor(n * 2^k / d) in exact arithmetic, q and r being the quotient and
\* the remainder reached so far
RECURSIVE ScaledQuotient(_, _, _, _)
ScaledQuotient(q, r, d, k) ==
  IF k = 0 THEN q
  ELSE ScaledQuotient(2 * q + (IF 2 * r >= d THEN 1 ELSE 0),
                      (2 * r) % d, d, k - 1)

\* the aspect mismatch of a w1 x h1 request to mode m on the 8192 scale,
\* without any overflow
ExactMismatch(m, w1, h1) ==
  LET w0 == ar1335_res_table[m + 1].width
      h0 == ar1335_res_table[m + 1].height
      n == Abs(w0 * h1 - w1 * h0)
      d == w1 * h0
  IN  ScaledQuotient(n \div d, n % d, d, 13)

Modes == 0..(res_num - 1)

\* the request does not exceed mode m and is within 10% of its aspect
Qualifies(m, w1, h1) ==
  /\ w1 <= ar1335_res_table[m + 1].width
  /\ h1 <= ar1335_res_table[m + 1].height
  /\ ExactMismatch(m, w1, h1) <= 819

\* thread t stands at a return of ar1335_set_fmt
AtSetFmtReturn(t) ==
  call[t].op = "set_fmt" /\ pc[t] \in {"set_fmt_unlock", "set_fmt_einval"}

\* C11: for a request with non-zero dimensions that does not exceed a mode
\* and is within 10% (819 of 8192) of its aspect, the mode selected is such a
\* mode, is the first such mode of the table, and is no mode whose mismatch
\* is larger than that of a mode the request qualifies for; 1900x1070
\* selects 1920x1080
C11_QualifyingModePreferred ==
  \A t \in Threads :
    (AtSetFmtReturn(t) /\ call[t].width # 0 /\ call[t].height # 0) =>
      LET w1 == call[t].width
          h1 == call[t].height
      IN  \A m \in Modes :
            Qualifies(m, w1, h1) =>
              /\ Qualifies(out[t].idx, w1, h1)
              /\ out[t].idx <= m
              /\ ExactMismatch(out[t].idx, w1, h1) <= ExactMismatch(m, w1, h1)
              /\ (w1 = 1900 /\ h1 = 1070) => out[t].idx = 0

\* a 1900x1070 request, which qualifies for both modes, has selected 1920x1080
C11_Witness ==
  \E t \in Threads :
    /\ AtSetFmtReturn(t)
    /\ call[t].width = 1900 /\ call[t].height = 1070
    /\ Qualifies(0, 1900, 1070) /\ Qualifies(1, 1900, 1070)
    /\ out[t].idx = 0
    /\ out[t].width = 1920 /\ out[t].height = 1080

(***************************************************************************)
(* ar1335_set_fmt: what a call leaves behind.                              *)
(***************************************************************************)
\* the step of thread t is a whole call of ar1335_set_fmt up to its return
SetFmtStep(t) ==
  pc[t] = "idle" /\ pc'[t] \in {"set_fmt_unlock", "set_fmt_einval"}

\* C12: a set_fmt request whose width or height is zero fails and selects
\* no mode: the call returns an error and leaves the format and the current
\* mode as they were
C12_ZeroSizeRejected ==
  [][\A t \in Threads :
       (SetFmtStep(t) /\ (call'[t].width = 0 \/ call'[t].height = 0)) =>
         /\ local'[t].ret < 0
         /\ cur_res' = cur_res
         /\ format' = format]_vars

\* C13: at the successful return of set_fmt the size handed back is that of
\* the selected entry of ar1335_res_table and, for the active format,
\* dev->format holds that size and dev->cur_res is the index of that entry
C13_FormatSnappedToMode ==
  \A t \in Threads :
    (call[t].op = "set_fmt" /\ pc[t] = "set_fmt_unlock") =>
      /\ out[t].idx \in Modes
      /\ out[t].width = ar1335_res_table[out[t].idx + 1].width
      /\ out[t].height = ar1335_res_table[out[t].idx + 1].height
      /\ call[t].which = V4L2_SUBDEV_FORMAT_ACTIVE =>
            /\ cur_res = out[t].idx
            /\ format.width = ar1335_res_table[cur_res + 1].width
            /\ format.height = ar1335_res_table[cur_res + 1].height
            /\ format.width = out[t].width
            /\ format.height = out[t].height

\* a successful active set_fmt of 1900x1070 has left 1920x1080 everywhere
C13_Witness ==
  \E t \in Threads :
    /\ call[t].op = "set_fmt" /\ pc[t] = "set_fmt_unlock"
    /\ call[t].which = V4L2_SUBDEV_FORMAT_ACTIVE
    /\ call[t].width = 1900 /\ call[t].height = 1070
    /\ format.width = 1920 /\ format.height = 1080
    /\ out[t].width = 1920 /\ out[t].height = 1080
    /\ cur_res = 0

\* C20: a set_fmt that fails leaves the width, the height and the code of
\* dev->format and dev->cur_res as they were
C20_FailedSetFmtKeepsState ==
  [][\A t \in Threads :
       (SetFmtStep(t) /\ local'[t].ret # 0) =>
         /\ format'.width = format.width
         /\ format'.height = format.height
         /\ format'.code = format.code
         /\ cur_res' = cur_res]_vars

\* thread t stands at a return of a set_fmt call whose request is that of
\* the call that returned last
SameRequestAgain(t) ==
  /\ AtSetFmtReturn(t)
  /\ prev.op = "set_fmt"
  /\ call[t].which = prev.which
  /\ call[t].width = prev.width
  /\ call[t].height = prev.height
  /\ call[t].code = prev.code

\* C14: a set_fmt call that follows a call with the same request leaves
\* dev->format (width, height, code, field) and dev->cur_res as the first
\* call left them, returns what the first returned, and has issued the same
\* bus transfers
C14_SetFmtIdempotent ==
  \A t \in Threads :
    SameRequestAgain(t) =>
      /\ format = prev.format
      /\ cur_res = prev.cur_res
      /\ local[t].ret = prev.ret
      /\ wr[t] = prev.wr

\* an active 1900x1070 request made twice: the second call stands at its
\* return with the device at 1920x1080
C14_Witness ==
  \E t \in Threads :
    /\ SameRequestAgain(t)
    /\ call[t].which = V4L2_SUBDEV_FORMAT_ACTIVE
    /\ call[t].width = 1900 /\ call[t].height = 1070
    /\ format.width = 1920 /\ format.height = 1080
    /\ cur_res = 0

(***************************************************************************)
(* The geometry of the format the device holds.                            *)
(***************************************************************************)
\* w is the burst of ar1335_set_geometry
IsGeometryBurst(w) == w.addr = AR1335_REG_X_ADDR_START /\ Len(w.data) = 6

\* C15: for the format the device holds, x_start is in [8, 4231], y_start
\* is in [8, 3143] and even, both are the centring offsets
\* (array size - format size) / 2 clamped to those ranges, and they are the
\* first two words of every geometry burst ar1335_s_stream issues
C15_GeometryStartInRange ==
  LET x == geometry_x(format)
      y == geometry_y(format)
  IN  /\ x >= AR1335_MIN_X_ADDR_START /\ x <= AR1335_MAX_X_ADDR_END
      /\ y >= AR1335_MIN_Y_ADDR_START /\ y <= AR1335_MAX_Y_ADDR_END
      /\ y % 2 = 0
      /\ x = Clamp((AR1335_NATIVE_WIDTH - format.width) \div 2,
                   AR1335_MIN_X_ADDR_START, AR1335_MAX_X_ADDR_END)
      /\ y = Clamp((AR1335_NATIVE_HEIGHT - format.height) \div 2,
                   AR1335_MIN_Y_ADDR_START, AR1335_MAX_Y_ADDR_END)
      /\ \A t \in Threads :
            call[t].op = "s_stream" =>
              \A i \in 1..Len(wr[t]) :
                IsGeometryBurst(wr[t][i]) =>
                  wr[t][i].data[1] = x /\ wr[t][i].data[2] = y

\* the burst has been issued for 3840x2160: x_start 200, y_start 496
C15_Witness ==
  \E t \in Threads :
    /\ InSStream(t, 1)
    /\ format.width = 3840 /\ format.height = 2160
    /\ Len(wr[t]) >= 1
    /\ IsGeometryBurst(wr[t][1])
    /\ wr[t][1].data[1] = 200 /\ wr[t][1].data[2] = 496

(***************************************************************************)
(* ar1335_probe: the chip ID and the initialization writes.                *)
(***************************************************************************)
InProbe(t) == call[t].op = "probe"

IsRead(w) == w.data = << >>
IsWrite(w) == w.data # << >>

\* a chip-ID register has been read and has not returned its expected value
ChipIdMismatch(t) ==
  \E i \in 1..Len(wr[t]) :
    /\ IsRead(wr[t][i])
    /\ wr[t][i].ok
    /\ \/ wr[t][i].addr = 0 /\ wr[t][i].val # 339
       \/ wr[t][i].addr = 3 /\ wr[t][i].val # 1546

\* C16: once a chip-ID register has read 0x0000 # 0x153 or 0x0003 # 0x60A,
\* ar1335_probe writes nothing to the device, returns -ENXIO, and the
\* sub-device is never registered
C16_IdMismatchFailsAttach ==
  /\ [](\A t \in Threads :
          (InProbe(t) /\ ChipIdMismatch(t)) =>
            /\ \A i \in 1..Len(wr[t]) : IsRead(wr[t][i])
            /\ pc[t] \in {"power_on_remove", "out_free", "probe_return"}
            /\ local[t].ret = -ENXIO)
  /\ []((\E t \in Threads : InProbe(t) /\ ChipIdMismatch(t)) =>
          [](attach.state # "registered"))

\* register 0x0000 has read 0x153 and register 0x0003 something else: the
\* probe stands at its return with -ENXIO
C16_Witness ==
  \E t \in Threads :
    /\ InProbe(t)
    /\ pc[t] = "probe_return"
    /\ Len(wr[t]) = 2
    /\ wr[t][1].ok /\ wr[t][1].val = 339
    /\ wr[t][2].ok /\ wr[t][2].addr = 3 /\ wr[t][2].val # 1546
    /\ local[t].ret = -ENXIO
    /\ attach.state = "probing"

\* the writes of the initialization in the order of the code: the software
\* reset, then initial_regs
InitWrites == << <<259, 256>> >> \o initial_regs

\* a write of the initialization has failed
InitWriteFailed(t) ==
  \E i \in 1..Len(wr[t]) : IsWrite(wr[t][i]) /\ ~wr[t][i].ok

\* C17: ar1335_probe issues the reset write and the entries of initial_regs
\* in table order; a write that fails is the last one issued, the probe
\* returns an error, and the sub-device is never registered
C17_InitWriteFailureAborts ==
  /\ [](\A t \in Threads :
          InProbe(t) =>
            LET ws == SelectSeq(wr[t], IsWrite)
            IN  /\ Len(ws) <= Len(InitWrites)
                /\ \A i \in 1..Len(ws) :
                     /\ ws[i].addr = InitWrites[i][1]
                     /\ ws[i].data = << InitWrites[i][2] >>
                     /\ ~ws[i].ok => i = Len(ws)
                /\ InitWriteFailed(t) =>
                     /\ pc[t] \in {"power_on_remove", "out_free",
                                   "probe_return"}
                     /\ local[t].ret < 0)
  /\ []((\E t \in Threads : InProbe(t) /\ InitWriteFailed(t)) =>
          [](attach.state # "registered"))

\* the reset and two entries of initial_regs were written, the third entry
\* failed: the probe stands at its return with an error
C17_Witness ==
  \E t \in Threads :
    /\ InProbe(t)
    /\ pc[t] = "probe_return"
    /\ InitWriteFailed(t)
    /\ Len(SelectSeq(wr[t], IsWrite)) = 4
    /\ local[t].ret = -1
    /\ attach.state = "probing"

(***************************************************************************)
(* The controls.                                                           *)
(***************************************************************************)
\* the controls a stream start is to push, with the register of each
PushedControls ==
  {"V4L2_CID_GAIN", "V4L2_CID_TEST_PATTERN", "V4L2_CID_VFLIP",
   "V4L2_CID_HFLIP", "V4L2_CID_LENGTH_LINE_PCK", "V4L2_CID_COARSE_INT_TIME"}

ControlRegister(id) ==
  IF id \in FlipControls THEN 12352 ELSE ctrl_write(id, 0)[1]

\* the word written to the register of control id carries the value val
Reflects(id, val, word) ==
  IF id \in FlipControls THEN Bit(word, flip_bit(id)) = val
  ELSE word = ctrl_write(id, val)[2]

\* C18: when a stream start has succeeded, for every control a caller has
\* set, the start has written that control's value to its register, and no
\* later write of the start has put another value there
C18_ControlsPushedOnStart ==
  \A t \in Threads :
    (AtSStreamReturn(t) /\ call[t].enable # 0 /\ local[t].ret = 0) =>
      \A id \in PushedControls :
        ctrl_val[id] # << >> =>
          \E i \in 1..Len(wr[t]) :
            /\ wr[t][i].addr = ControlRegister(id)
            /\ Len(wr[t][i].data) = 1
            /\ Reflects(id, ctrl_val[id][1], wr[t][i].data[1])
            /\ \A j \in (i + 1)..Len(wr[t]) :
                 wr[t][j].addr = ControlRegister(id) =>
                   Reflects(id, ctrl_val[id][1], wr[t][j].data[1])

\* C19: a control write or a frame-interval write one of whose bus
\* transfers has failed returns that bus error
C19_ControlFailureReturned ==
  \A t \in Threads :
    (pc[t] \in {"s_ctrl_return", "sfi_return"}
       /\ \E i \in 1..Len(wr[t]) : ~wr[t][i].ok) =>
      local[t].ret \in BusErrors

(***************************************************************************)
(* The PLL words of the mode tables.                                       *)
(***************************************************************************)
\* pre-divider and multiplier pairs a PLL setting may use, and the test
\* that a pair takes ext_clk (MHz) into [320, 1200] MHz at or above target
PllPairs == (1..63) \X (32..254)

PllValid(pm, target, ext_clk) ==
  /\ ext_clk * pm[2] >= 320 * pm[1]
  /\ ext_clk * pm[2] <= 1200 * pm[1]
  /\ ext_clk * pm[2] >= target * pm[1]

\* <<target, ext_clk>> in MHz a board may ask for
PllInputs == { <<440, 24>>, <<400, 24>>, <<400, 6>> }

\* the pre-divider and the multiplier in the words written to 0x0304 and
\* 0x0306 (the low fields of pre_pll_clk_div and pll_multiplier)
ProgrammedPll(t) ==
  { <<wr[t][i].data[1] % 64, wr[t][j].data[1] % 256>> :
      i \in {k \in 1..Len(wr[t]) : wr[t][k].addr = 772},
      j \in {k \in 1..Len(wr[t]) : wr[t][k].addr = 774} }

\* C21: at a successful stream start, for every <<target, ext_clk>> that has
\* a valid pair, the pre-divider and multiplier written are a valid pair
\* whose frequency ext_clk * mult / pre is the smallest of all valid pairs
C21_PllIsMinimalSolution ==
  \A t \in Threads :
    (AtSStreamReturn(t) /\ call[t].enable # 0 /\ local[t].ret = 0) =>
      \A in \in PllInputs :
        (\E pm \in PllPairs : PllValid(pm, in[1], in[2])) =>
          /\ ProgrammedPll(t) # {}
          /\ \A got \in ProgrammedPll(t) :
               /\ got \in PllPairs
               /\ PllValid(got, in[1], in[2])
               /\ \A pm \in PllPairs :
                    PllValid(pm, in[1], in[2]) =>
                      got[2] * pm[1] <= pm[2] * got[1]

(***************************************************************************)
(* The gain words.                                                         *)
(***************************************************************************)
Min(a, b) == IF a < b THEN a ELSE b
Max(a, b) == IF a > b THEN a ELSE b

\* the shared analog gain for a master gain and the two balances
AnalogGain(master, red_bal, blue_bal) ==
  Min(Min(master, Max(master + red_bal, 0)),
      Min(Max(master + blue_bal, 0), 64))

\* the register word of a channel: (digital << 7) | analog
GainRegister(channel, analog) ==
  Min(channel - analog + 64, 511) * 128 + analog

\* C22: a gain update writes four channel words, each
\* (min(channel - analog + 64, 511) << 7) | analog with analog in [0, 64];
\* the driver has no balance controls, so the balances are zero and every
\* channel is the master gain
C22_GainEncoded ==
  \A t \in Threads :
    (pc[t] = "s_ctrl_return" /\ call[t].id = "V4L2_CID_GAIN") =>
      LET master == call[t].val
          analog == AnalogGain(master, 0, 0)
      IN  /\ analog >= 0 /\ analog <= 64
          /\ Len(wr[t]) = 4
          /\ \A i \in 1..Len(wr[t]) :
               wr[t][i].data = << GainRegister(master, analog) >>

(***************************************************************************)
(* The matcher: wrapped mismatch, and the scan against a full scan.        *)
(***************************************************************************)
\* C23: for a request within the bounds of the largest mode, a mode the
\* matcher returns (not the fallback taken when it returns -1) has an exact
\* mismatch of at most 819; 1920x200 does not select 1920x1080
C23_NoWrappedAcceptance ==
  \A t \in Threads :
    (AtSetFmtReturn(t) /\ call[t].width # 0 /\ call[t].height # 0
       /\ out[t].scanned
       /\ ar1335_match_resolution([width |-> call[t].width,
                                   height |-> call[t].height]) # -1) =>
      ExactMismatch(out[t].idx, call[t].width, call[t].height) <= 819

\* the distance of a w1 x h1 request to mode m on the 8192 scale, without
\* any overflow
ExactDistance(m, w1, h1) ==
  LET w0 == ar1335_res_table[m + 1].width
      h0 == ar1335_res_table[m + 1].height
      n == w0 * h1 + w1 * h0
      d == w1 * h1
  IN  ScaledQuotient(n \div d, n % d, d, 13)

\* mode m passes the two tests of the loop that come before the distance
Accepted(m, w1, h1) ==
  LET w0 == ar1335_res_table[m + 1].width
      h0 == ar1335_res_table[m + 1].height
  IN  /\ w0 >= w1
      /\ h0 >= h1
      /\ CDiv(CDiv(Mul8192S32(Abs(w0 * h1 - w1 * h0)), w1), h0) <= 819

\* a scan of the whole table from mode i on that keeps the accepted mode
\* of the smallest exact distance, best being the one kept so far
RECURSIVE full_scan(_, _, _, _)
full_scan(i, w1, h1, best) ==
  IF i >= res_num THEN best
  ELSE IF Accepted(i, w1, h1)
            /\ (best = -1 \/ ExactDistance(i, w1, h1)
                               < ExactDistance(best, w1, h1))
    THEN full_scan(i + 1, w1, h1, i)
  ELSE full_scan(i + 1, w1, h1, best)

\* the mode a set_fmt built on the full scan selects
FullScanMode(w1, h1) ==
  LET m == IF w1 = 0 \/ h1 = 0 THEN -1 ELSE full_scan(0, w1, h1, -1)
  IN  IF m = -1 THEN res_num - 1 ELSE m

\* C24: for every request the mode selected by the scan that stops at the
\* first accepted mode is the mode a full scan for the smallest exact
\* distance selects
C24_EarlyBreakIsFullScan ==
  \A t \in Threads :
    AtSetFmtReturn(t) =>
      out[t].idx = FullScanMode(call[t].width, call[t].height)

\* a 1900x1070 request is accepted for both modes; the scan has stopped at
\* 1920x1080, whose exact distance is the smaller one
C24_Witness ==
  \E t \in Threads :
    /\ AtSetFmtReturn(t)
    /\ call[t].width = 1900 /\ call[t].height = 1070
    /\ Accepted(0, 1900, 1070) /\ Accepted(1, 1900, 1070)
    /\ ExactDistance(0, 1900, 1070) < ExactDistance(1, 1900, 1070)
    /\ out[t].idx = 0

(***************************************************************************)
(* The device between calls.                                               *)
(***************************************************************************)
\* C25: in every state from the successful probe on, dev->cur_res is an
\* index of ar1335_res_table and dev->format has the width and height of
\* that entry
C25_FormatIsCurrentMode ==
  /\ cur_res \in Modes
  /\ format.width = ar1335_res_table[cur_res + 1].width
  /\ format.height = ar1335_res_table[cur_res + 1].height

\* C26: whenever no thread is inside an entry point the mutex is free
C26_LockFreeWhenIdle ==
  (\A t \in Threads : pc[t] = "idle") => input_lock = 0

\* C27: the window of every geometry burst ar1335_s_stream issues ends on
\* the pixel array: x_end <= 4231 and y_end <= 3143
C27_WindowOnArray ==
  \A t \in Threads :
    call[t].op = "s_stream" =>
      \A i \in 1..Len(wr[t]) :
        IsGeometryBurst(wr[t][i]) =>
          /\ wr[t][i].data[3] = wr[t][i].data[1] + format.width - 1
          /\ wr[t][i].data[4] = wr[t][i].data[2] + format.height - 1
          /\ wr[t][i].data[3] <= AR1335_MAX_X_ADDR_END
          /\ wr[t][i].data[4] <= AR1335_MAX_Y_ADDR_END

(***************************************************************************)
(* The enumeration of frame sizes.                                         *)
(***************************************************************************)
InEnumFrameSize(t) == call[t].op = "enum_frame_size"

\* C28: ar1335_enum_frame_size(index) returns 0 with the width and height
\* of ar1335_res_table[index] for every index below the number of modes and
\* -EINVAL for every index at or above it, whatever dev->cur_res is
C28_EnumFrameSizeByIndex ==
  \A t \in Threads :
    InEnumFrameSize(t) =>
      /\ pc[t] # "enum_oops"
      /\ pc[t] = "enum_unlock" =>
           IF call[t].index < res_num
             THEN /\ local[t].ret = 0
                  /\ out[t].op = "enum_frame_size"
                  /\ out[t].min_width = ar1335_res_table[call[t].index + 1].width
                  /\ out[t].max_width = ar1335_res_table[call[t].index + 1].width
                  /\ out[t].min_height = ar1335_res_table[call[t].index + 1].height
                  /\ out[t].max_height = ar1335_res_table[call[t].index + 1].height
             ELSE local[t].ret = -EINVAL

(***************************************************************************)
(* The frame interval.                                                     *)
(***************************************************************************)
\* the interval is one ar1335_s_frame_interval resets to the maximum rate
ResetInterval(tpf) ==
  tpf[1] = 0 \/ tpf[2] = 0 \/ tpf[2] > tpf[1] * MAX_FRAME_RATE

\* C29: when ar1335_s_frame_interval is given a zero numerator, a zero
\* denominator or a rate above 60 fps, the caller is handed 1/60, the
\* stored dev->frame_rate is 1/60 when the call returns, and a following
\* ar1335_g_frame_interval returns 1/60
C29_ResetIntervalStored ==
  \A t \in Threads :
    /\ (pc[t] = "sfi_return" /\ ResetInterval(call[t].tpf)) =>
         /\ out[t].tpf = <<1, MAX_FRAME_RATE>>
         /\ frame_rate = [numerator |-> 1, denominator |-> MAX_FRAME_RATE]
    /\ (pc[t] = "gfi_unlock" /\ prev.op = "s_frame_interval"
          /\ ResetInterval(prev.tpf)) =>
         /\ out[t].tpf = <<1, MAX_FRAME_RATE>>
         /\ out[t].tpf = prev.out

(***************************************************************************)
(* The teardown of a failed probe.                                         *)
(***************************************************************************)
\* C30: a failed ar1335_probe calls v4l2_device_unregister_subdev at most
\* once
C30_UnregisteredAtMostOnce ==
  attach.unregistered <= 1

====
